---- MODULE Spec2Model ----
(***************************************************************************)
(* Model of the @a2aletheia/a2a trust layer:                               *)
(*   - the trust pipeline (verifySendPreconditions, trust-pipeline.ts),    *)
(*   - the AletheiaA2A client and its connection cache (aletheia-a2a.ts),  *)
(*   - the TrustedAgent connection handle (trusted-agent.ts),              *)
(*   - the sender-identity envelope (sender-identity.ts).                  *)
(* Registry, resolver and transport are external: every call to them is a  *)
(* nondeterministic choice over what the call may return or throw.         *)
(***************************************************************************)
EXTENDS Integers, Sequences, FiniteSets, TLC

VARIABLES
    gateCall,     \* arguments and registry behaviour of the last verifySendPreconditions call
    gateResult,   \* what that call returned or threw, with the registry calls it made
    config,       \* the AletheiaA2AConfig the client was constructed with
    connectionCache, \* AletheiaA2A._connectionCache : DID -> handle (0 = no entry)
    handles,      \* the TrustedAgent instances created so far, by handle
    stream,       \* handle whose sendMessageStream is still being consumed (0 = none)
    store,        \* ContextStore contents : key -> StoredContext (NoContext = absent)
    pending,      \* fire-and-forget ContextStore operations not yet completed
    last,         \* observation of the last client call
    now,          \* Date.now(), in units of TimeUnit milliseconds
    envelope,     \* the SenderIdentityEnvelope in flight (NoEnvelope = none)
    signedOver,   \* what the envelope in flight was created from
    verified,     \* result of the last verifySenderEnvelope call
    delegationEnvelope, \* the UserDelegationEnvelope in flight
    delegationSigned,   \* the delegation signUserDelegation signed, and the key
    verifiedUser, \* result of the last verifyUserDelegation call
    metadata,     \* a message's metadata map, as handed to an extractor
    extracted,    \* what the extractor returned or threw
    contexts,     \* the request context objects: where each is in its life
    verifiedSenderMap, \* WeakMap<object, VerifiedSender> of sender-identity.ts
    verifiedUserMap,   \* WeakMap<object, VerifiedUser> of user-delegation.ts
    lastStored,   \* what was last stored for each context, by map
    lastGet,      \* the last getVerifiedSender / getVerifiedUser call
    urlConnectionCache, \* AletheiaA2A._urlConnectionCache : cache key -> handle
    connecting,   \* connect(did) calls in flight, each at one of its awaits
    returned,     \* the connections the completed connect calls returned
    snapshots,    \* the TrustInfo objects created so far, by reference
    trustInfoOf,  \* the reference each TrustedAgent's trustInfo field holds
    issued,       \* TrustInfo references handed out, with the values they had
    streamed,     \* the stream being consumed: the references its events carried
    outbound,     \* the last message handed to sendMessage or sendMessageStream
    probed,       \* checkLiveness was called since the last message went out
    built,        \* the last message buildMessageSendParams built, and its receipt
    digested      \* the last two part lists digested, with their digests

gateVars == <<gateCall, gateResult>>
clientVars == <<config, connectionCache, handles, stream, store, pending, last>>
senderVars == <<now, envelope, signedOver, verified>>
delegationVars == <<delegationEnvelope, delegationSigned, verifiedUser,
                    metadata, extracted>>
requestVars == <<contexts, verifiedSenderMap, verifiedUserMap, lastStored,
                 lastGet>>
connectVars == <<urlConnectionCache, connecting, returned>>
sessionVars == <<snapshots, trustInfoOf, issued, streamed, outbound, probed>>
messageVars == <<built, digested>>
vars == <<gateCall, gateResult, config, connectionCache, handles, stream,
          store, pending, last, now, envelope, signedOver, verified,
          delegationEnvelope, delegationSigned, verifiedUser, metadata,
          extracted, contexts, verifiedSenderMap, verifiedUserMap, lastStored,
          lastGet, urlConnectionCache, connecting, returned, snapshots,
          trustInfoOf, issued, streamed, outbound, probed, built, digested>>

----------------------------------------------------------------------------
(* Values shared by all parts *)

NULL == "null"            \* JavaScript null
UNDEFINED == "undefined"  \* JavaScript undefined
NullScore == -1           \* trustScore: null (scores are numbers 0-100)
\* Truthiness of an optional string argument.
Truthy(value) == value # UNDEFINED /\ value # ""

\* Trust scores the registry reports (0-100 or null) and thresholds a client sets.
Scores == {NullScore, 0, 10, 49, 50, 85, 90, 100}
Thresholds == {0, 10, 50, 90}

DIDs == {"did:key:a", "did:key:b"}

\* Agent (from @a2aletheia/sdk): the fields this package reads.
Agents ==
    [did : DIDs, isLive : BOOLEAN, trustScore : Scores, isBattleTested : BOOLEAN]

\* TrustPipelineConfig
PipelineConfigs ==
    [verifyIdentity : BOOLEAN, livenessCheckBeforeSend : BOOLEAN,
     minTrustScore : Thresholds, requireLive : BOOLEAN]

\* What an external call can throw: an Error instance or any other value.
NoThrow == [type |-> "none", msg |-> ""]
ThrownErrors == {[type |-> "Error", msg |-> "network down"],
                 [type |-> "Error", msg |-> "not found"]}
ThrownValues == {[type |-> "string", msg |-> "boom"]}
Thrown == ThrownErrors \cup ThrownValues

\* Outcomes of client.resolveDID(did) and client.checkLiveness(did).
ResolveOutcomes ==
    {[ok |-> TRUE, thrown |-> NoThrow]} \cup
    {[ok |-> FALSE, thrown |-> t] : t \in Thrown}
LivenessOutcomes ==
    {[ok |-> TRUE, value |-> b, thrown |-> NoThrow] : b \in BOOLEAN} \cup
    {[ok |-> FALSE, value |-> FALSE, thrown |-> t] : t \in Thrown}

----------------------------------------------------------------------------
(* errors.ts *)

NoError == [name |-> "none", code |-> "", cause |-> NoThrow,
            trustScore |-> NullScore, threshold |-> 0]

\* err instanceof Error ? err : new Error(String(err))
CauseOf(err) ==
    IF err.type = "Error" THEN err ELSE [type |-> "Error", msg |-> err.msg]

DIDResolutionError(cause) ==
    [name |-> "DIDResolutionError", code |-> "DID_RESOLUTION_FAILED",
     cause |-> cause, trustScore |-> NullScore, threshold |-> 0]

AgentNotLiveError(cause) ==
    [name |-> "AgentNotLiveError", code |-> "AGENT_NOT_LIVE",
     cause |-> cause, trustScore |-> NullScore, threshold |-> 0]

TrustScoreBelowThresholdError(trustScore, threshold) ==
    [name |-> "TrustScoreBelowThresholdError",
     code |-> "TRUST_SCORE_BELOW_THRESHOLD",
     cause |-> NoThrow, trustScore |-> trustScore, threshold |-> threshold]

----------------------------------------------------------------------------
(* types.ts : buildTrustInfo *)

NoAgent == [did |-> NULL, isLive |-> FALSE, trustScore |-> NullScore,
            isBattleTested |-> FALSE]

NoTrustInfo == [didVerified |-> FALSE, isLive |-> FALSE, trustScore |-> NullScore,
                isBattleTested |-> FALSE, responseVerified |-> UNDEFINED,
                verifiedAt |-> -1]

buildTrustInfo(agent, at) ==
    IF agent = NoAgent
    THEN [didVerified |-> FALSE, isLive |-> FALSE, trustScore |-> NullScore,
          isBattleTested |-> FALSE, responseVerified |-> NULL,
          verifiedAt |-> at]
    ELSE [didVerified |-> TRUE, isLive |-> agent.isLive,
          trustScore |-> agent.trustScore,
          isBattleTested |-> agent.isBattleTested,
          responseVerified |-> NULL, verifiedAt |-> at]

----------------------------------------------------------------------------
(* trust-pipeline.ts : verifySendPreconditions                              *)
(* Each stage yields the error it throws (NoError = passed) and the         *)
(* registry calls it made, in order.                                        *)

\* Variant: the identity stage resolves the DID whatever verifyIdentity says.
IdentityStage_AlwaysResolves(agent, pipelineConfig, resolveOut) ==
    [calls |-> <<"resolveDID">>,
     error |-> IF resolveOut.ok THEN NoError
               ELSE DIDResolutionError(CauseOf(resolveOut.thrown))]

\* Variant: the identity stage wraps a failure without keeping its cause.
IdentityStage_DropsCause(agent, pipelineConfig, resolveOut) ==
    IF pipelineConfig.verifyIdentity
    THEN [calls |-> <<"resolveDID">>,
          error |-> IF resolveOut.ok THEN NoError
                    ELSE DIDResolutionError(NoThrow)]
    ELSE [calls |-> <<>>, error |-> NoError]

\* 1. DID resolution
IdentityStage(agent, pipelineConfig, resolveOut) ==
    IF pipelineConfig.verifyIdentity
    THEN [calls |-> <<"resolveDID">>,
          error |-> IF resolveOut.ok THEN NoError
                    ELSE DIDResolutionError(CauseOf(resolveOut.thrown))]
    ELSE [calls |-> <<>>, error |-> NoError]

\* Variant: without a probe, a cached offline status is rejected even when
\* requireLive is off.
LivenessStage_IgnoresRequireLive(agent, pipelineConfig, liveOut) ==
    IF pipelineConfig.livenessCheckBeforeSend
    THEN [calls |-> <<"checkLiveness">>,
          error |-> IF liveOut.ok
                    THEN (IF liveOut.value THEN NoError
                          ELSE AgentNotLiveError(NoThrow))
                    ELSE AgentNotLiveError(CauseOf(liveOut.thrown))]
    ELSE IF ~agent.isLive
    THEN [calls |-> <<>>, error |-> AgentNotLiveError(NoThrow)]
    ELSE [calls |-> <<>>, error |-> NoError]

\* Variant: a probe that throws is treated as a probe that answered "live".
LivenessStage_ThrowPasses(agent, pipelineConfig, liveOut) ==
    IF pipelineConfig.livenessCheckBeforeSend
    THEN [calls |-> <<"checkLiveness">>,
          error |-> IF liveOut.ok /\ ~liveOut.value
                    THEN AgentNotLiveError(NoThrow)
                    ELSE NoError]
    ELSE IF pipelineConfig.requireLive /\ ~agent.isLive
    THEN [calls |-> <<>>, error |-> AgentNotLiveError(NoThrow)]
    ELSE [calls |-> <<>>, error |-> NoError]

\* Variant: what checkLiveness throws escapes as it is.
LivenessStage_Rethrows(agent, pipelineConfig, liveOut) ==
    IF pipelineConfig.livenessCheckBeforeSend
    THEN [calls |-> <<"checkLiveness">>,
          error |-> IF liveOut.ok
                    THEN (IF liveOut.value THEN NoError
                          ELSE AgentNotLiveError(NoThrow))
                    ELSE [NoError EXCEPT !.name = "Error"]]
    ELSE IF pipelineConfig.requireLive /\ ~agent.isLive
    THEN [calls |-> <<>>, error |-> AgentNotLiveError(NoThrow)]
    ELSE [calls |-> <<>>, error |-> NoError]

\* 2. Liveness check
LivenessStage(agent, pipelineConfig, liveOut) ==
    IF pipelineConfig.livenessCheckBeforeSend
    THEN [calls |-> <<"checkLiveness">>,
          error |-> IF liveOut.ok
                    THEN (IF liveOut.value THEN NoError
                          ELSE AgentNotLiveError(NoThrow))
                    ELSE AgentNotLiveError(CauseOf(liveOut.thrown))]
    ELSE IF pipelineConfig.requireLive /\ ~agent.isLive
    THEN [calls |-> <<>>, error |-> AgentNotLiveError(NoThrow)]
    ELSE [calls |-> <<>>, error |-> NoError]

\* Variant: a score equal to the threshold is rejected too.
ReputationStage_Inclusive(agent, pipelineConfig) ==
    IF /\ pipelineConfig.minTrustScore > 0
       /\ \/ agent.trustScore = NullScore
          \/ agent.trustScore <= pipelineConfig.minTrustScore
    THEN [calls |-> <<>>,
          error |-> TrustScoreBelowThresholdError(agent.trustScore,
                                                  pipelineConfig.minTrustScore)]
    ELSE [calls |-> <<>>, error |-> NoError]

\* 3. Trust score gate
ReputationStage(agent, pipelineConfig) ==
    IF /\ pipelineConfig.minTrustScore > 0
       /\ \/ agent.trustScore = NullScore
          \/ agent.trustScore < pipelineConfig.minTrustScore
    THEN [calls |-> <<>>,
          error |-> TrustScoreBelowThresholdError(agent.trustScore,
                                                  pipelineConfig.minTrustScore)]
    ELSE [calls |-> <<>>, error |-> NoError]

\* The result of a call: the error thrown (NoError = returned), the TrustInfo
\* returned, the registry calls made and the last stage entered.
GateOutcome(error, trustInfo, calls, stage) ==
    [error |-> error, trustInfo |-> trustInfo, calls |-> calls, stage |-> stage]

\* Variant: the liveness stage runs before the identity stage.
verifySendPreconditions_LivenessFirst(agent, pipelineConfig, resolveOut, liveOut, at) ==
    LET s1 == IdentityStage(agent, pipelineConfig, resolveOut)
        s2 == LivenessStage(agent, pipelineConfig, liveOut)
        s3 == ReputationStage(agent, pipelineConfig)
    IN  IF s2.error # NoError
        THEN GateOutcome(s2.error, NoTrustInfo, s2.calls, "liveness")
        ELSE IF s1.error # NoError
        THEN GateOutcome(s1.error, NoTrustInfo, s2.calls \o s1.calls, "identity")
        ELSE IF s3.error # NoError
        THEN GateOutcome(s3.error, NoTrustInfo, s2.calls \o s1.calls,
                         "reputation")
        ELSE GateOutcome(NoError, buildTrustInfo(agent, at),
                         s2.calls \o s1.calls, "done")

verifySendPreconditions(agent, pipelineConfig, resolveOut, liveOut, at) ==
    LET s1 == IdentityStage(agent, pipelineConfig, resolveOut)
        s2 == LivenessStage(agent, pipelineConfig, liveOut)
        s3 == ReputationStage(agent, pipelineConfig)
    IN  IF s1.error # NoError
        THEN GateOutcome(s1.error, NoTrustInfo, s1.calls, "identity")
        ELSE IF s2.error # NoError
        THEN GateOutcome(s2.error, NoTrustInfo, s1.calls \o s2.calls, "liveness")
        ELSE IF s3.error # NoError
        THEN GateOutcome(s3.error, NoTrustInfo, s1.calls \o s2.calls,
                         "reputation")
        ELSE GateOutcome(NoError, buildTrustInfo(agent, at),
                         s1.calls \o s2.calls, "done")

NoGateCall == [agent |-> NoAgent,
               pipelineConfig |-> [verifyIdentity |-> TRUE,
                                   livenessCheckBeforeSend |-> FALSE,
                                   minTrustScore |-> 0, requireLive |-> TRUE],
               resolveOut |-> [ok |-> TRUE, thrown |-> NoThrow],
               liveOut |-> [ok |-> TRUE, value |-> TRUE, thrown |-> NoThrow]]
NoGateResult == GateOutcome(NoError, NoTrustInfo, <<>>, "idle")

\* Every call verifySendPreconditions can receive: any agent, any policy and
\* any behaviour of the registry.
GateCalls ==
    [agent : Agents, pipelineConfig : PipelineConfigs,
     resolveOut : ResolveOutcomes, liveOut : LivenessOutcomes]

\* The call is made: verifySendPreconditions runs to its return or throw.
CallGate ==
    /\ gateResult = NoGateResult
    /\ gateCall # NoGateCall
    /\ gateResult' = verifySendPreconditions(gateCall.agent,
                                             gateCall.pipelineConfig,
                                             gateCall.resolveOut,
                                             gateCall.liveOut, now)
    /\ UNCHANGED <<requestVars, connectVars, sessionVars>>
    /\ UNCHANGED <<messageVars, gateCall, clientVars, senderVars, delegationVars>>

----------------------------------------------------------------------------
(* aletheia-a2a.ts, trusted-agent.ts : the client and its connections       *)

MaxHandles == 1   \* TrustedAgent instances one client creates in a run

\* Agent records the registry serves to the client in this model.
ClientAgents ==
    {a \in Agents : a.trustScore \in {NullScore, 85} /\ a.isBattleTested}

\* How the registry answers the pipeline's calls in this model.
ClientResolveOutcomes ==
    {o \in ResolveOutcomes : o.thrown.msg # "not found" /\ o.thrown.type # "string"}
ClientLivenessOutcomes ==
    {o \in LivenessOutcomes : o.thrown.msg # "not found" /\ o.thrown.type # "string"}

\* AletheiaA2AConfig: a boolean option is "true", "false" or, when the caller
\* leaves it out, UNDEFINED; minTrustScore is a number or Unset.
Unset == -1
ClientConfigs ==
    [verifyIdentity : {UNDEFINED, "false"},
     livenessCheckBeforeSend : {UNDEFINED, "true"},
     minTrustScore : {Unset, 50},
     requireLive : {UNDEFINED, "false"},
     contextStore : {FALSE}]

\* option ?? value
DefaultBool(option, value) == IF option = UNDEFINED THEN value ELSE option = "true"
DefaultNumber(option, value) == IF option = Unset THEN value ELSE option

buildPipelineConfig(cfg) ==
    [verifyIdentity |-> DefaultBool(cfg.verifyIdentity, TRUE),
     livenessCheckBeforeSend |-> DefaultBool(cfg.livenessCheckBeforeSend, FALSE),
     minTrustScore |-> DefaultNumber(cfg.minTrustScore, 0),
     requireLive |-> DefaultBool(cfg.requireLive, TRUE)]

pipelineConfig == buildPipelineConfig(config)

\* Conversation identifiers a remote agent hands out.
ContextIds == {"ctx-1"}
TaskIds == {"task-1"}

\* StoredContext
NoContext == [contextId |-> NULL, taskId |-> NULL]
StoreKeyOfDid(did) == "did:" \o did
StoreKeys == {StoreKeyOfDid(d) : d \in DIDs}

\* A TrustedAgent instance (constructor, trusted-agent.ts).
TrustedAgent(agent, trustInfo, contextStore, storeKey) ==
    [did |-> agent.did, agent |-> agent, trustInfo |-> trustInfo,
     contextId |-> UNDEFINED, lastTaskId |-> UNDEFINED,
     contextStore |-> contextStore, storeKey |-> storeKey]

\* Variant: only the contextId is taken from the store.
restoreContext_ContextIdOnly(ta, stored) ==
    IF ~ta.contextStore \/ ta.storeKey = UNDEFINED THEN ta
    ELSE IF stored # NoContext
    THEN [ta EXCEPT !.contextId = stored.contextId]
    ELSE ta

\* TrustedAgent.restoreContext, given what the store's get resolves to.
restoreContext(ta, stored) ==
    IF ~ta.contextStore \/ ta.storeKey = UNDEFINED THEN ta
    ELSE IF stored # NoContext
    THEN [ta EXCEPT !.contextId = stored.contextId, !.lastTaskId = stored.taskId]
    ELSE ta

\* Errors that are not the pipeline's.
ExternalError == [name |-> "Error", code |-> "", cause |-> NoThrow,
                  trustScore |-> NullScore, threshold |-> 0]
AgentNotFoundError == [name |-> "AgentNotFoundError", code |-> "AGENT_NOT_FOUND",
                       cause |-> NoThrow, trustScore |-> NullScore,
                       threshold |-> 0]
A2AProtocolError == [name |-> "A2AProtocolError", code |-> "A2A_PROTOCOL_ERROR",
                     cause |-> NoThrow, trustScore |-> NullScore,
                     threshold |-> 0]

\* AletheiaA2A._connectAgent: what it throws or returns and the cache and
\* instances it leaves, given the registry's and the agent card's behaviour.
Connected(error, handle, gate, cache, hs) ==
    [error |-> error, handle |-> handle, gate |-> gate, cache |-> cache,
     handles |-> hs]

\* Variant: a cached connection is refreshed and returned without the gate.
connectCached_Unverified(agent, cached, gate, cache, hs, at) ==
    Connected(NoError, cached, NoGateResult, cache,
              [hs EXCEPT ![cached].agent = agent,
                         ![cached].trustInfo = buildTrustInfo(agent, at)])

\* Variant: the cached connection is updated before the gate's verdict is
\* looked at.
connectCached_RefreshesFirst(agent, cached, gate, cache, hs, at) ==
    Connected(gate.error, IF gate.error # NoError THEN 0 ELSE cached, gate,
              cache,
              [hs EXCEPT ![cached].agent = agent,
                         ![cached].trustInfo = buildTrustInfo(agent, at)])

\* The cached branch of _connectAgent.
connectCached(agent, cached, gate, cache, hs, at) ==
    IF gate.error # NoError
    THEN Connected(gate.error, 0, gate, cache, hs)
    ELSE Connected(NoError, cached, gate, cache,
                   [hs EXCEPT ![cached].agent = agent,
                              ![cached].trustInfo = buildTrustInfo(agent, at)])

\* The branch of _connectAgent that creates a connection.
connectFresh(agent, gate, cardOk, cache, hs, st, cfg) ==
    IF gate.error # NoError
    THEN Connected(gate.error, 0, gate, cache, hs)
    ELSE IF ~cardOk
    THEN Connected(ExternalError, 0, gate, cache, hs)
    ELSE LET storeKey == StoreKeyOfDid(agent.did)
             created == TrustedAgent(agent, gate.trustInfo, cfg.contextStore,
                                     storeKey)
             restored == IF cfg.contextStore
                         THEN restoreContext(created, st[storeKey])
                         ELSE created
             handle == Len(hs) + 1
         IN  Connected(NoError, handle, gate,
                       [cache EXCEPT ![agent.did] = handle],
                       Append(hs, restored))

connectAgent(agent, resolveOut, liveOut, cardOk, cache, hs, st, cfg, at) ==
    LET cached == cache[agent.did]
        gate == verifySendPreconditions(agent, buildPipelineConfig(cfg),
                                        resolveOut, liveOut, at)
    IN  IF cached # 0
        THEN connectCached(agent, cached, gate, cache, hs, at)
        ELSE connectFresh(agent, gate, cardOk, cache, hs, st, cfg)

\* AletheiaA2A.connect on a DID already in the cache.
connectReuse(freshAgent, cached, cache, hs, at) ==
    Connected(NoError, cached, NoGateResult, cache,
              [hs EXCEPT ![cached].agent = freshAgent,
                         ![cached].trustInfo = buildTrustInfo(freshAgent, at)])

\* What sendMessage resolves to (a Task or a Message; a Task's id is its taskId).
Results ==
    [kind : {"task"}, taskId : TaskIds, contextId : ContextIds] \cup
    [kind : {"message"}, taskId : TaskIds \cup {UNDEFINED},
     contextId : ContextIds \cup {UNDEFINED}]
\* One event of sendMessageStream.
StreamEvents ==
    Results \cup
    [kind : {"status-update"}, taskId : TaskIds, contextId : ContextIds]
\* sendMessage throws, resolves to a JSON-RPC error response, or to a result.
SendOutcomes ==
    {[type |-> t, result |-> [kind |-> "none", taskId |-> UNDEFINED,
                              contextId |-> UNDEFINED]]
        : t \in {"throws", "errorResponse"}} \cup
    {[type |-> "result", result |-> r] : r \in Results}

\* TrustedAgent.send: tracking of the conversation state from the response.
trackResponse(ta, result) ==
    IF result.kind = "task"
    THEN [ta EXCEPT !.lastTaskId = result.taskId, !.contextId = result.contextId]
    ELSE [ta EXCEPT
            !.lastTaskId = IF result.taskId # UNDEFINED THEN result.taskId ELSE @,
            !.contextId = IF result.contextId # UNDEFINED THEN result.contextId
                          ELSE @]

\* TrustedAgent.stream: tracking of the conversation state from one event.
trackEvent(ta, event) ==
    IF event.kind = "task"
    THEN [ta EXCEPT !.lastTaskId = event.taskId, !.contextId = event.contextId]
    ELSE [ta EXCEPT
            !.lastTaskId = IF event.taskId # UNDEFINED /\ @ = UNDEFINED
                           THEN event.taskId ELSE @,
            !.contextId = IF event.contextId # UNDEFINED /\ @ = UNDEFINED
                          THEN event.contextId ELSE @]

\* TrustedAgent._persistContext: the store operations it issues.
persistContext(ta) ==
    IF ~ta.contextStore \/ ta.storeKey = UNDEFINED THEN {}
    ELSE IF ta.contextId = UNDEFINED /\ ta.lastTaskId = UNDEFINED THEN {}
    ELSE {[op |-> "set", key |-> ta.storeKey,
           data |-> [contextId |-> ta.contextId, taskId |-> ta.lastTaskId]]}

MaxPending == 2   \* store operations in flight at a time

\* What one client call is observed to do.
Observed(op, did, cached, conn, sent, error) ==
    [op |-> op, did |-> did, cached |-> cached,
     gateStage |-> conn.gate.stage, gateError |-> conn.gate.error.name,
     handle |-> conn.handle, sent |-> sent, error |-> error.name]

NoCall == [op |-> "none", did |-> NULL, cached |-> FALSE, gateStage |-> "idle",
           gateError |-> "none", handle |-> 0, sent |-> FALSE, error |-> "none"]

\* registry.getAgent(did): throws, or resolves to the agent's current record.
GetAgentOutcomes(did) ==
    {[ok |-> FALSE, agent |-> NoAgent]} \cup
    {[ok |-> TRUE, agent |-> a] : a \in {x \in ClientAgents : x.did = did}}

\* _discoverAndSelect: discovery throws, finds no agent, or the selector
\* picks one of the agents found.
DiscoverOutcomes ==
    {[type |-> t, agent |-> NoAgent] : t \in {"throws", "empty"}} \cup
    {[type |-> "selected", agent |-> a] : a \in ClientAgents}

\* The registry and transport answers a call can depend on: a call that is
\* not made has no outcome to choose.
ResolveAnswers(made) ==
    IF made THEN ClientResolveOutcomes ELSE {[ok |-> TRUE, thrown |-> NoThrow]}
LivenessAnswers(made) ==
    IF made THEN ClientLivenessOutcomes
    ELSE {[ok |-> TRUE, value |-> TRUE, thrown |-> NoThrow]}
CardAnswers(made) == IF made THEN BOOLEAN ELSE {TRUE}
NotSent == [type |-> "none", result |-> [kind |-> "none", taskId |-> UNDEFINED,
                                         contextId |-> UNDEFINED]]
SendAnswers(made) == IF made THEN SendOutcomes ELSE {NotSent}

\* _discoverAndSelect followed by _connectAgent.
discoverAndConnect(d, r, l, cardOk) ==
    IF d.type = "throws"
    THEN Connected(ExternalError, 0, NoGateResult, connectionCache, handles)
    ELSE IF d.type = "empty"
    THEN Connected(AgentNotFoundError, 0, NoGateResult, connectionCache, handles)
    ELSE connectAgent(d.agent, r, l, cardOk, connectionCache, handles, store,
                      config, now)

\* connect(did)
Connect(did) ==
    /\ connectionCache[did] # 0 \/ Len(handles) < MaxHandles
    /\ \E got \in GetAgentOutcomes(did) :
       \E r \in ResolveAnswers(got.ok /\ connectionCache[did] = 0
                               /\ pipelineConfig.verifyIdentity),
          l \in LivenessAnswers(got.ok /\ connectionCache[did] = 0
                                /\ pipelineConfig.livenessCheckBeforeSend),
          cardOk \in CardAnswers(got.ok /\ connectionCache[did] = 0) :
          LET cached == connectionCache[did]
              conn == IF ~got.ok
                      THEN Connected(ExternalError, 0, NoGateResult,
                                     connectionCache, handles)
                      ELSE IF cached # 0
                      THEN connectReuse(got.agent, cached, connectionCache,
                                        handles, now)
                      ELSE connectAgent(got.agent, r, l, cardOk, connectionCache,
                                        handles, store, config, now)
          IN  /\ connectionCache' = conn.cache
              /\ handles' = conn.handles
              /\ last' = Observed("connect", did, cached # 0, conn, FALSE,
                                  conn.error)
    /\ UNCHANGED <<requestVars, connectVars, sessionVars>>
    /\ UNCHANGED <<messageVars, config, stream, store, pending, gateVars, senderVars,
                   delegationVars>>

\* sendByCapability(capability, input): discover, select, _connectAgent, send.
SendByCapability ==
    \E d \in DiscoverOutcomes :
    \E r \in ResolveAnswers(d.type = "selected" /\ pipelineConfig.verifyIdentity),
       l \in LivenessAnswers(d.type = "selected"
                             /\ pipelineConfig.livenessCheckBeforeSend),
       cardOk \in CardAnswers(d.type = "selected"
                              /\ connectionCache[d.agent.did] = 0) :
    \E out \in SendAnswers(discoverAndConnect(d, r, l, cardOk).error = NoError) :
       LET conn == discoverAndConnect(d, r, l, cardOk)
           h == conn.handle
           sent == conn.error = NoError
           tracked == IF sent /\ out.type = "result"
                      THEN trackResponse(conn.handles[h], out.result)
                      ELSE NoAgent
           ops == IF sent /\ out.type = "result" THEN persistContext(tracked)
                  ELSE {}
           error == IF ~sent THEN conn.error
                    ELSE IF out.type = "throws" THEN ExternalError
                    ELSE IF out.type = "errorResponse" THEN A2AProtocolError
                    ELSE NoError
       IN  /\ d.type = "selected" =>
                 connectionCache[d.agent.did] # 0 \/ Len(handles) < MaxHandles
           /\ Cardinality(pending \cup ops) <= MaxPending
           /\ connectionCache' = conn.cache
           /\ handles' = IF sent /\ out.type = "result"
                         THEN [conn.handles EXCEPT ![h] = tracked]
                         ELSE conn.handles
           /\ pending' = pending \cup ops
           /\ last' = Observed("sendByCapability", d.agent.did,
                               d.type = "selected"
                                   /\ connectionCache[d.agent.did] # 0,
                               conn, sent, error)
           /\ UNCHANGED <<requestVars, connectVars, sessionVars>>
           /\ UNCHANGED <<messageVars, config, stream, store, gateVars, senderVars, delegationVars>>

\* streamByCapability(capability, input), up to the call of sendMessageStream.
StreamByCapability ==
    /\ stream = 0
    /\ \E d \in DiscoverOutcomes :
       \E r \in ResolveAnswers(d.type = "selected"
                               /\ pipelineConfig.verifyIdentity),
          l \in LivenessAnswers(d.type = "selected"
                                /\ pipelineConfig.livenessCheckBeforeSend),
          cardOk \in CardAnswers(d.type = "selected"
                                 /\ connectionCache[d.agent.did] = 0) :
          LET conn == discoverAndConnect(d, r, l, cardOk)
              sent == conn.error = NoError
          IN  /\ d.type = "selected" =>
                    connectionCache[d.agent.did] # 0 \/ Len(handles) < MaxHandles
              /\ connectionCache' = conn.cache
              /\ handles' = conn.handles
              /\ stream' = IF sent THEN conn.handle ELSE 0
              /\ last' = Observed("streamByCapability", d.agent.did,
                                  d.type = "selected"
                                      /\ connectionCache[d.agent.did] # 0,
                                  conn, sent, conn.error)
    /\ UNCHANGED <<requestVars, connectVars, sessionVars>>
    /\ UNCHANGED <<messageVars, config, store, pending, gateVars, senderVars, delegationVars>>

\* TrustedAgent.stream: one event of the open stream is tracked and yielded.
StreamEvent ==
    /\ stream # 0
    /\ \E event \in StreamEvents :
          LET tracked == trackEvent(handles[stream], event)
              ops == persistContext(tracked)
          IN  /\ Cardinality(pending \cup ops) <= MaxPending
              /\ handles' = [handles EXCEPT ![stream] = tracked]
              /\ pending' = pending \cup ops
    /\ UNCHANGED <<requestVars, connectVars, sessionVars>>
    /\ UNCHANGED <<messageVars, config, connectionCache, stream, store, last, gateVars,
                   senderVars, delegationVars>>

\* The event stream ends (or throws).
StreamEnd ==
    /\ stream # 0
    /\ stream' = 0
    /\ UNCHANGED <<requestVars, connectVars, sessionVars>>
    /\ UNCHANGED <<messageVars, config, connectionCache, handles, store, pending, last,
                   gateVars, senderVars, delegationVars>>

\* disconnectAgent(did)
DisconnectAgent(did) ==
    /\ connectionCache' = [connectionCache EXCEPT ![did] = 0]
    /\ last' = [NoCall EXCEPT !.op = "disconnectAgent", !.did = did]
    /\ UNCHANGED <<requestVars, connectVars, sessionVars>>
    /\ UNCHANGED <<messageVars, config, handles, stream, store, pending, gateVars,
                   senderVars, delegationVars>>

\* A fire-and-forget ContextStore operation completes; a rejection is swallowed.
StoreComplete ==
    \E op \in pending, ok \in BOOLEAN :
       /\ pending' = pending \ {op}
       /\ store' = IF ~ok THEN store
                   ELSE IF op.op = "set" THEN [store EXCEPT ![op.key] = op.data]
                   ELSE [store EXCEPT ![op.key] = NoContext]
       /\ UNCHANGED <<requestVars, connectVars, sessionVars>>
       /\ UNCHANGED <<messageVars, config, connectionCache, handles, stream, last, gateVars,
                      senderVars, delegationVars>>

----------------------------------------------------------------------------
(* aletheia-a2a.ts : connect(did) calls running concurrently                *)
(* A call runs until its next await and resumes when the awaited promise    *)
(* settles; between the two, other calls run.                               *)

MaxCalls == 2   \* connect calls one client is asked for in a run

\* The DID the concurrent callers connect to.
CallDIDs == {"did:key:a"}

\* A call in flight: where it waits, the connection it found in the cache
\* when it looked (0 = none) and the agent record it holds.
Call(id, did, pc, cached, agent) ==
    [id |-> id, did |-> did, pc |-> pc, cached |-> cached, agent |-> agent]

\* What a completed call returned (handle 0 = it threw), and for a call that
\* returned a cached connection the conversation state before and after.
Returned(call, conn, reused, before, at) ==
    [id |-> call.id, did |-> call.did, handle |-> conn.handle,
     error |-> conn.error.name, reused |-> reused,
     contextBefore |-> before.contextId, taskBefore |-> before.lastTaskId,
     contextAfter |-> IF conn.handle = 0 THEN UNDEFINED
                      ELSE conn.handles[conn.handle].contextId,
     taskAfter |-> IF conn.handle = 0 THEN UNDEFINED
                   ELSE conn.handles[conn.handle].lastTaskId,
     trustInfo |-> IF conn.handle = 0 THEN NoTrustInfo
                   ELSE conn.handles[conn.handle].trustInfo,
     agent |-> call.agent, at |-> at]

NoConversation == [contextId |-> UNDEFINED, lastTaskId |-> UNDEFINED]

\* A call ends: its outcome is recorded and the cache and the instances are
\* left as it made them.
Return(call, conn, reused, before) ==
    /\ connecting' = connecting \ {call}
    /\ returned' = returned \cup {Returned(call, conn, reused, before, now)}
    /\ connectionCache' = conn.cache
    /\ handles' = conn.handles

\* connect(did) is called: the cache is looked up and the call awaits
\* getAgent (aletheia-a2a.ts 91-94, 101).
StartConnect(did) ==
    /\ Cardinality(connecting) + Cardinality(returned) < MaxCalls
    /\ LET id == Cardinality(connecting) + Cardinality(returned) + 1
           cached == connectionCache[did]
       IN  connecting' = connecting \cup
                {Call(id, did, IF cached # 0 THEN "refresh" ELSE "getAgent",
                      cached, NoAgent)}
    /\ UNCHANGED <<messageVars, urlConnectionCache, returned, clientVars, gateVars,
                   senderVars, delegationVars, requestVars, sessionVars>>

\* getAgent settles for a call that found its connection in the cache: the
\* connection is refreshed and returned (95-97).
ResumeRefresh(call) ==
    /\ call.pc = "refresh"
    /\ \E fresh \in GetAgentOutcomes(call.did) :
          IF ~fresh.ok
          THEN Return(call, Connected(ExternalError, 0, NoGateResult,
                                      connectionCache, handles),
                      TRUE, NoConversation)
          ELSE Return([call EXCEPT !.agent = fresh.agent],
                      connectReuse(fresh.agent, call.cached, connectionCache,
                                   handles, now),
                      TRUE, handles[call.cached])
    /\ UNCHANGED <<urlConnectionCache, config, stream, store, pending, last,
                   gateVars, senderVars, delegationVars, requestVars,
                   sessionVars, messageVars>>

\* getAgent settles for a call that found nothing: _connectAgent looks the
\* cache up again and the call awaits verifySendPreconditions (213-238).
ResumeGetAgent(call) ==
    /\ call.pc = "getAgent"
    /\ \E fresh \in GetAgentOutcomes(call.did) :
          IF ~fresh.ok
          THEN Return(call, Connected(ExternalError, 0, NoGateResult,
                                      connectionCache, handles),
                      FALSE, NoConversation)
          ELSE /\ connecting' = (connecting \ {call}) \cup
                      {Call(call.id, call.did,
                            IF connectionCache[call.did] # 0 THEN "reverify"
                            ELSE "verify",
                            connectionCache[call.did], fresh.agent)}
               /\ UNCHANGED <<returned, connectionCache, handles>>
    /\ UNCHANGED <<messageVars, urlConnectionCache, config, stream, store, pending, last,
                   gateVars, senderVars, delegationVars, requestVars,
                   sessionVars>>

\* The pipeline settles for a call whose second lookup found a connection:
\* the connection is refreshed and returned (220-229).
ResumeReverify(call) ==
    /\ call.pc = "reverify"
    /\ \E r \in ResolveAnswers(pipelineConfig.verifyIdentity),
          l \in LivenessAnswers(pipelineConfig.livenessCheckBeforeSend) :
          Return(call,
                 connectCached(call.agent, call.cached,
                               verifySendPreconditions(call.agent,
                                                       pipelineConfig, r, l,
                                                       now),
                               connectionCache, handles, now),
                 TRUE, handles[call.cached])
    /\ UNCHANGED <<urlConnectionCache, config, stream, store, pending, last,
                   gateVars, senderVars, delegationVars, requestVars,
                   sessionVars, messageVars>>

\* The pipeline and then getAgentCard settle for a call whose second lookup
\* found nothing: a TrustedAgent is created, cached under the DID and
\* returned (233-271). The call touches no shared state between the two
\* awaits.
ResumeVerify(call) ==
    /\ call.pc = "verify"
    /\ \E r \in ResolveAnswers(pipelineConfig.verifyIdentity),
          l \in LivenessAnswers(pipelineConfig.livenessCheckBeforeSend),
          cardOk \in BOOLEAN :
          Return(call,
                 connectFresh(call.agent,
                              verifySendPreconditions(call.agent,
                                                      pipelineConfig, r, l,
                                                      now),
                              cardOk, connectionCache, handles, store, config),
                 FALSE, NoConversation)
    /\ UNCHANGED <<urlConnectionCache, config, stream, store, pending, last,
                   gateVars, senderVars, delegationVars, requestVars,
                   sessionVars, messageVars>>

\* A message is exchanged over a connection: TrustedAgent.send tracks the
\* conversation state of the response.
Exchange(h) ==
    /\ handles[h].contextId = UNDEFINED
    /\ \E result \in Results :
          handles' = [handles EXCEPT ![h] = trackResponse(handles[h], result)]
    /\ UNCHANGED <<messageVars, config, connectionCache, stream, store, pending, last,
                   connectVars, gateVars, senderVars, delegationVars,
                   requestVars, sessionVars>>

----------------------------------------------------------------------------
(* aletheia-a2a.ts : connectByUrl and clearConnections                      *)

\* Endpoint URLs and scopes callers pass (UNDEFINED = no scope option).
Urls == {"https://agent", "https://agent#s"}
UrlScopes == {UNDEFINED, "s", "url"}

\* options?.scope ? `${url}#${options.scope}` : url
cacheKeyOf(url, scope) == IF Truthy(scope) THEN url \o "#" \o scope ELSE url
\* options?.scope ? `${options.scope}:${url}` : `url:${url}`
storeKeyOfUrl(url, scope) ==
    IF Truthy(scope) THEN scope \o ":" \o url ELSE "url:" \o url

UrlCacheKeys == {cacheKeyOf(url, scope) : url \in Urls, scope \in UrlScopes}

\* What a completed connectByUrl call returned (handle 0 = it threw).
UrlReturned(url, scope, handle) ==
    [url |-> url, scope |-> scope, handle |-> handle]

\* connectByUrl(url, {scope}): the cached connection of the cache key, or a
\* new one made from the agent card, without a registry lookup and without
\* the trust pipeline.
ConnectByUrl(url, scope) ==
    /\ Cardinality(returned) < MaxCalls
    /\ LET cacheKey == cacheKeyOf(url, scope)
           cached == urlConnectionCache[cacheKey]
       IN  IF cached # 0
           THEN /\ returned' = returned \cup {UrlReturned(url, scope, cached)}
                /\ UNCHANGED <<urlConnectionCache, handles>>
           ELSE \E cardOk \in BOOLEAN :
                   IF ~cardOk
                   THEN /\ returned' = returned \cup
                                          {UrlReturned(url, scope, 0)}
                        /\ UNCHANGED <<urlConnectionCache, handles>>
                   ELSE LET trustedAgent ==
                                TrustedAgent(NoAgent, buildTrustInfo(NoAgent, now),
                                             config.contextStore,
                                             storeKeyOfUrl(url, scope))
                            restored ==
                                IF config.contextStore
                                THEN restoreContext(trustedAgent, NoContext)
                                ELSE trustedAgent
                        IN  /\ handles' = Append(handles, restored)
                            /\ urlConnectionCache' =
                                   [urlConnectionCache EXCEPT
                                       ![cacheKey] = Len(handles) + 1]
                            /\ returned' = returned \cup
                                   {UrlReturned(url, scope, Len(handles) + 1)}
    /\ last' = [NoCall EXCEPT !.op = "connectByUrl"]
    /\ UNCHANGED <<messageVars, connecting, config, connectionCache, stream, store, pending,
                   gateVars, senderVars, delegationVars, requestVars,
                   sessionVars>>

\* clearConnections()
ClearConnections ==
    /\ connectionCache' = [d \in DIDs |-> 0]
    /\ urlConnectionCache' = [k \in UrlCacheKeys |-> 0]
    /\ last' = [NoCall EXCEPT !.op = "clearConnections"]
    /\ UNCHANGED <<messageVars, connecting, returned, config, handles, stream, store,
                   pending, gateVars, senderVars, delegationVars, requestVars,
                   sessionVars>>

----------------------------------------------------------------------------
(* trusted-agent.ts, aletheia-a2a.ts : conversation context in a store      *)
(* ContextStore.set and delete return promises the caller does not await:   *)
(* an operation issued stays pending until the store completes it, and the  *)
(* store completes pending operations in any order.                         *)

MaxInstances == 2   \* TrustedAgent instances created for one DID in a run

\* Clients with and without a ContextStore; the pipeline lets every agent
\* through.
StoreConfigs ==
    {[c EXCEPT !.contextStore = configured] :
        c \in {x \in ClientConfigs : /\ x.verifyIdentity = "false"
                                     /\ x.livenessCheckBeforeSend = UNDEFINED
                                     /\ x.minTrustScore = Unset
                                     /\ x.requireLive = "false"},
        configured \in BOOLEAN}

\* TrustedAgent.resetContext: the store operations it issues.
resetContextOps(ta) ==
    IF ~ta.contextStore \/ ta.storeKey = UNDEFINED THEN {}
    ELSE {[op |-> "delete", key |-> ta.storeKey, data |-> NoContext]}

\* What a call on a connection is observed to do.
ObservedOn(op, h, hs, error) ==
    [NoCall EXCEPT !.op = op, !.did = hs[h].did, !.handle = h,
                   !.sent = op \in {"send", "stream"}, !.error = error]

\* connect(did): the cached connection with its trust refreshed, or a new
\* one from _connectAgent, which restores the context the store holds.
StoreConnect(did) ==
    /\ \E agent \in {a \in ClientAgents : /\ a.did = did /\ a.isLive
                                         /\ a.trustScore = NullScore},
          cardOk \in CardAnswers(connectionCache[did] = 0) :
          LET cached == connectionCache[did]
              conn == IF cached # 0
                      THEN connectReuse(agent, cached, connectionCache,
                                        handles, now)
                      ELSE connectAgent(agent,
                                        [ok |-> TRUE, thrown |-> NoThrow],
                                        [ok |-> TRUE, value |-> TRUE,
                                         thrown |-> NoThrow],
                                        cardOk, connectionCache, handles,
                                        store, config, now)
          IN  /\ cached = 0 => Len(handles) < MaxInstances
              /\ connectionCache' = conn.cache
              /\ handles' = conn.handles
              /\ last' = Observed("connect", did, cached # 0, conn, FALSE,
                                  conn.error)
    /\ UNCHANGED <<requestVars, connectVars, sessionVars>>
    /\ UNCHANGED <<messageVars, config, stream, store, pending, gateVars,
                   senderVars, delegationVars>>

\* TrustedAgent.send on connection h: the response is tracked and the
\* context persisted, without waiting for the store.
StoreSend(h) ==
    /\ \E out \in SendOutcomes :
          LET tracked == IF out.type = "result"
                         THEN trackResponse(handles[h], out.result)
                         ELSE handles[h]
              ops == IF out.type = "result" THEN persistContext(tracked)
                     ELSE {}
          IN  /\ Cardinality(pending \cup ops) <= MaxPending
              /\ handles' = [handles EXCEPT ![h] = tracked]
              /\ pending' = pending \cup ops
              /\ last' = ObservedOn("send", h, handles,
                                    IF out.type = "throws"
                                    THEN ExternalError.name
                                    ELSE IF out.type = "errorResponse"
                                    THEN A2AProtocolError.name
                                    ELSE NoError.name)
    /\ UNCHANGED <<requestVars, connectVars, sessionVars>>
    /\ UNCHANGED <<messageVars, config, connectionCache, stream, store,
                   gateVars, senderVars, delegationVars>>

\* TrustedAgent.stream on connection h, one event: the event is tracked and
\* the context persisted, without waiting for the store.
StoreStreamEvent(h) ==
    /\ \E event \in StreamEvents :
          LET tracked == trackEvent(handles[h], event)
              ops == persistContext(tracked)
          IN  /\ Cardinality(pending \cup ops) <= MaxPending
              /\ handles' = [handles EXCEPT ![h] = tracked]
              /\ pending' = pending \cup ops
              /\ last' = ObservedOn("stream", h, handles, NoError.name)
    /\ UNCHANGED <<requestVars, connectVars, sessionVars>>
    /\ UNCHANGED <<messageVars, config, connectionCache, stream, store,
                   gateVars, senderVars, delegationVars>>

\* TrustedAgent.resetContext on connection h.
ResetContext(h) ==
    /\ Cardinality(pending \cup resetContextOps(handles[h])) <= MaxPending
    /\ handles' = [handles EXCEPT ![h].contextId = UNDEFINED,
                                  ![h].lastTaskId = UNDEFINED]
    /\ pending' = pending \cup resetContextOps(handles[h])
    /\ last' = ObservedOn("resetContext", h, handles, NoError.name)
    /\ UNCHANGED <<requestVars, connectVars, sessionVars>>
    /\ UNCHANGED <<messageVars, config, connectionCache, stream, store,
                   gateVars, senderVars, delegationVars>>

----------------------------------------------------------------------------
(* trusted-agent.ts : a connection in use                                   *)

(* A TrustInfo is an object: `snapshots` holds the objects created so far,  *)
(* a reference is an index into it, and trustInfoOf[h] is the reference     *)
(* held by the trustInfo field of connection h.                             *)

MaxSnapshots == 2   \* TrustInfo objects one client creates in a run

\* The client's options in this part: a live probe before each send, no DID
\* resolution, no score threshold.
SessionConfigs ==
    {c \in ClientConfigs : /\ c.verifyIdentity = "false"
                           /\ c.livenessCheckBeforeSend = "true"
                           /\ c.minTrustScore = Unset
                           /\ c.requireLive = "false"}

\* registry.getAgent(did) in this part: the record's isLive changes from one
\* call to the next, its score does not.
SessionAgentOutcomes(did) ==
    {o \in GetAgentOutcomes(did) : o.agent.trustScore = NullScore}

\* What the remote agent answers in this part: a send throws or resolves to
\* a Task or to a Message that names no conversation, and so do the events
\* of a stream.
SessionSendOutcomes ==
    {o \in SendOutcomes :
        /\ o.type # "errorResponse"
        /\ o.result.kind = "message" =>
              o.result.taskId = UNDEFINED /\ o.result.contextId = UNDEFINED}
SessionStreamEvents ==
    {e \in StreamEvents :
        e.kind = "message" => e.taskId = UNDEFINED /\ e.contextId = UNDEFINED}

\* contextId and taskId a caller passes in SendOptions or in a MessageInput
\* (UNDEFINED = left out; a string input carries neither). A caller that
\* names a conversation passes both.
NoIds == [contextId |-> UNDEFINED, taskId |-> UNDEFINED]
InputIds == {NoIds, [contextId |-> "ctx-2", taskId |-> "task-2"]}
OptionIds == {NoIds, [contextId |-> "ctx-3", taskId |-> "task-3"]}

\* a ?? b
Coalesce(a, b) == IF a = UNDEFINED THEN b ELSE a

\* buildMessageSendParams: the contextId and taskId of the message it builds.
buildMessageSendParams(input, options) ==
    [contextId |-> Coalesce(options.contextId, input.contextId),
     taskId |-> Coalesce(options.taskId, input.taskId)]

\* TrustedAgent.send and stream: the parameters handed to the A2A client.
messageSendParams(ta, input, options) ==
    buildMessageSendParams(input,
        [contextId |-> Coalesce(options.contextId, ta.contextId),
         taskId |-> Coalesce(options.taskId, ta.lastTaskId)])

\* No stream is being consumed; no message has just gone out. `outbound` is
\* the message of the latest call, while that call is the latest.
NoStreamed == [began |-> NoTrustInfo, events |-> {}]
NoOutbound ==
    [via |-> "none", probed |-> FALSE,
     contextId |-> UNDEFINED, taskId |-> UNDEFINED,
     input |-> NoIds, options |-> NoIds, tracked |-> NoIds]

\* The message that goes out of connection ta, and what the caller asked for.
Outbound(via, ta, input, options, wasProbed) ==
    [via |-> via, probed |-> wasProbed,
     contextId |-> messageSendParams(ta, input, options).contextId,
     taskId |-> messageSendParams(ta, input, options).taskId,
     input |-> input, options |-> options,
     tracked |-> [contextId |-> ta.contextId, taskId |-> ta.lastTaskId]]

\* The pipeline called checkLiveness.
Probes(gate) == \E i \in 1..Len(gate.calls) : gate.calls[i] = "checkLiveness"

\* Variant: the connection's TrustInfo object is updated field by field.
installTrustInfo_InPlace(heap, refs, h, info) ==
    IF h > Len(refs)
    THEN [snapshots |-> Append(heap, info),
          trustInfoOf |-> Append(refs, Len(heap) + 1)]
    ELSE [snapshots |-> [heap EXCEPT ![refs[h]] = info], trustInfoOf |-> refs]

\* this.trustInfo = buildTrustInfo(agent): the object literal is a new
\* object and the field is pointed at it.
installTrustInfo(heap, refs, h, info) ==
    IF h > Len(refs)
    THEN [snapshots |-> Append(heap, info),
          trustInfoOf |-> Append(refs, Len(heap) + 1)]
    ELSE [snapshots |-> Append(heap, info),
          trustInfoOf |-> [refs EXCEPT ![h] = Len(heap) + 1]]

\* A TrustInfo reference leaves the library: the object and the field
\* values it had then.
Issued(ref, heap) == [ref |-> ref, info |-> heap[ref]]

\* The connection a call made or refreshed points at the call's TrustInfo.
Installed(conn) ==
    IF conn.error # NoError
    THEN [snapshots |-> snapshots, trustInfoOf |-> trustInfoOf]
    ELSE installTrustInfo(snapshots, trustInfoOf, conn.handle,
                          conn.handles[conn.handle].trustInfo)

\* connect(did), run to completion.
SessionConnect(did) ==
    /\ Len(snapshots) < MaxSnapshots
    /\ \E fresh \in SessionAgentOutcomes(did) :
       \E l \in LivenessAnswers(fresh.ok /\ connectionCache[did] = 0
                                /\ pipelineConfig.livenessCheckBeforeSend),
          cardOk \in CardAnswers(fresh.ok /\ connectionCache[did] = 0) :
          LET cached == connectionCache[did]
              conn == IF ~fresh.ok
                      THEN Connected(ExternalError, 0, NoGateResult,
                                     connectionCache, handles)
                      ELSE IF cached # 0
                      THEN connectReuse(fresh.agent, cached, connectionCache,
                                        handles, now)
                      ELSE connectAgent(fresh.agent,
                                        [ok |-> TRUE, thrown |-> NoThrow], l,
                                        cardOk, connectionCache, handles, store,
                                        config, now)
              heap == Installed(conn)
          IN  /\ connectionCache' = conn.cache
              /\ handles' = conn.handles
              /\ snapshots' = heap.snapshots
              /\ trustInfoOf' = heap.trustInfoOf
              /\ issued' = IF conn.error # NoError THEN issued
                           ELSE issued \cup
                                {Issued(heap.trustInfoOf[conn.handle],
                                        heap.snapshots)}
              /\ probed' = (probed \/ Probes(conn.gate))
    /\ outbound' = NoOutbound
    /\ UNCHANGED <<messageVars, streamed, config, stream, store, pending, last,
                   connectVars, gateVars, senderVars, delegationVars,
                   requestVars>>

\* sendByCapability(capability, input, options) when discovery selects an
\* agent: _connectAgent, then TrustedAgent.send.
SessionSendByCapability ==
    /\ Len(snapshots) < MaxSnapshots
    /\ \E d \in {o \in DiscoverOutcomes :
                      /\ o.type = "selected"
                      /\ o.agent.did \in CallDIDs
                      /\ o.agent.trustScore = NullScore},
          input \in InputIds, options \in OptionIds :
       \E l \in LivenessAnswers(pipelineConfig.livenessCheckBeforeSend),
          cardOk \in CardAnswers(connectionCache[d.agent.did] = 0) :
       \E out \in IF discoverAndConnect(d, [ok |-> TRUE, thrown |-> NoThrow],
                                        l, cardOk).error = NoError
                   THEN SessionSendOutcomes ELSE {NotSent} :
          LET conn == discoverAndConnect(d, [ok |-> TRUE, thrown |-> NoThrow],
                                         l, cardOk)
              h == conn.handle
              sent == conn.error = NoError
              heap == Installed(conn)
              answered == sent /\ out.type = "result"
          IN  /\ connectionCache' = conn.cache
              /\ handles' = IF answered
                            THEN [conn.handles EXCEPT
                                     ![h] = trackResponse(@, out.result)]
                            ELSE conn.handles
              /\ snapshots' = heap.snapshots
              /\ trustInfoOf' = heap.trustInfoOf
              /\ outbound' = IF sent
                             THEN Outbound("sendByCapability", conn.handles[h],
                                           input, options,
                                           probed \/ Probes(conn.gate))
                             ELSE outbound
              /\ probed' = IF sent THEN FALSE
                           ELSE (probed \/ Probes(conn.gate))
              /\ issued' = IF answered
                           THEN issued \cup
                                {Issued(heap.trustInfoOf[h], heap.snapshots)}
                           ELSE issued
    /\ UNCHANGED <<messageVars, streamed, config, stream, store, pending, last, connectVars,
                   gateVars, senderVars, delegationVars, requestVars>>

\* TrustedAgent.send(input, options) on a connection the caller holds.
SessionSend(h) ==
    \E input \in InputIds, options \in OptionIds,
       out \in SessionSendOutcomes :
       /\ outbound' = Outbound("send", handles[h], input, options, probed)
       /\ probed' = FALSE
       /\ handles' = IF out.type = "result"
                     THEN [handles EXCEPT ![h] = trackResponse(@, out.result)]
                     ELSE handles
       /\ issued' = IF out.type = "result"
                    THEN issued \cup {Issued(trustInfoOf[h], snapshots)}
                    ELSE issued
       /\ UNCHANGED <<messageVars, snapshots, trustInfoOf, streamed, config, connectionCache,
                      stream, store, pending, last, connectVars, gateVars,
                      senderVars, delegationVars, requestVars>>

\* TrustedAgent.stream(input, options) on a connection the caller holds, up
\* to the call of sendMessageStream.
SessionStream(h) ==
    /\ stream = 0
    /\ \E input \in InputIds, options \in OptionIds :
          outbound' = Outbound("stream", handles[h], input, options, probed)
    /\ probed' = FALSE
    /\ stream' = h
    /\ streamed' = [began |-> snapshots[trustInfoOf[h]], events |-> {}]
    /\ UNCHANGED <<messageVars, snapshots, trustInfoOf, issued, config, connectionCache,
                   handles, store, pending, last, connectVars, gateVars,
                   senderVars, delegationVars, requestVars>>

\* One event of the open stream is tracked and yielded with this.trustInfo
\* as it is at that moment.
SessionStreamEvent ==
    /\ stream # 0
    /\ \E event \in SessionStreamEvents :
          handles' = [handles EXCEPT ![stream] = trackEvent(@, event)]
    /\ streamed' = [streamed EXCEPT
                       !.events = @ \cup {snapshots[trustInfoOf[stream]]}]
    /\ issued' = issued \cup {Issued(trustInfoOf[stream], snapshots)}
    /\ UNCHANGED <<messageVars, snapshots, trustInfoOf, outbound, probed, config,
                   connectionCache, stream, store, pending, last, connectVars,
                   gateVars, senderVars, delegationVars, requestVars>>

\* The event stream ends (or throws).
SessionStreamEnd ==
    /\ stream # 0
    /\ stream' = 0
    /\ streamed' = NoStreamed
    /\ outbound' = NoOutbound
    /\ UNCHANGED <<messageVars, snapshots, trustInfoOf, issued, probed, config,
                   connectionCache, handles, store, pending, last, connectVars,
                   gateVars, senderVars, delegationVars, requestVars>>

\* TrustedAgent.refreshTrust() on a connection made by DID.
RefreshTrust(h) ==
    /\ Len(snapshots) < MaxSnapshots
    /\ \E fresh \in SessionAgentOutcomes(handles[h].did) :
          LET heap == IF ~fresh.ok
                      THEN [snapshots |-> snapshots, trustInfoOf |-> trustInfoOf]
                      ELSE installTrustInfo(snapshots, trustInfoOf, h,
                                            buildTrustInfo(fresh.agent, now))
          IN  /\ snapshots' = heap.snapshots
              /\ trustInfoOf' = heap.trustInfoOf
              /\ handles' = IF ~fresh.ok THEN handles
                            ELSE [handles EXCEPT
                                     ![h].agent = fresh.agent,
                                     ![h].trustInfo =
                                         buildTrustInfo(fresh.agent, now)]
              /\ issued' = IF ~fresh.ok THEN issued
                           ELSE issued \cup
                                {Issued(heap.trustInfoOf[h], heap.snapshots)}
    /\ outbound' = NoOutbound
    /\ UNCHANGED <<messageVars, streamed, probed, config, connectionCache, stream, store,
                   pending, last, connectVars, gateVars, senderVars,
                   delegationVars, requestVars>>

----------------------------------------------------------------------------
(* sender-identity.ts : Layer 1, signing and verifying the sender envelope  *)

ClockSkew == 30000           \* forward clock skew tolerated, in ms
DefaultMaxMessageAge == 300000  \* maxMessageAge when the option is left out
MaxTicks == 12               \* the clock runs from 0 to MaxTicks * ClockSkew ms

\* Ed25519 key pairs, named by their private key; a DID document holds the
\* public half.
Keys == {"key-a", "key-b"}
SenderDIDs == {"did:key:a", "did:key:b", "did:web:c"}
\* The key a DID's document holds once it resolves.
DocumentKey(did) == IF did = "did:key:a" THEN "key-a" ELSE "key-b"
\* didResolver.resolve(did): did:key resolves locally; did:web is fetched over
\* the network, which can fail or deliver a document without a usable
\* verification key (key NULL).
ResolverOutcomes(did) ==
    IF did = "did:web:c"
    THEN {[ok |-> TRUE, key |-> DocumentKey(did)], [ok |-> FALSE, key |-> NULL],
          [ok |-> TRUE, key |-> NULL]}
    ELSE {[ok |-> TRUE, key |-> DocumentKey(did)]}

MessageIds == {"msg-1", "msg-2"}
Digests == {"digest-1", "digest-2"}
\* An AgentSigningIdentity: a DID with the private key of its document's key,
\* or one configured with a key its DID document does not hold.
Identities ==
    {[did |-> d, privateKey |-> DocumentKey(d)] : d \in SenderDIDs} \cup
    {[did |-> "did:web:c", privateKey |-> "key-a"]}

\* signAgentMessage({messageId, partsDigest}, privateKey, did): an Ed25519
\* signature is determined by the key and the payload signed.
Signature(privateKey, messageId, partsDigest) ==
    [key |-> privateKey, messageId |-> messageId, partsDigest |-> partsDigest]
NoSignature == Signature(NULL, NULL, NULL)

\* Variant: the signature is checked against the key and the message id only.
verifyAgentMessageWithDID_IgnoresDigest(payload, signature, documentKey) ==
    /\ signature.key = documentKey
    /\ signature.messageId = payload.messageId

\* Variant: the signature is checked against the payload, whoever made it.
verifyAgentMessageWithDID_AnyKey(payload, signature, documentKey) ==
    /\ signature.messageId = payload.messageId
    /\ signature.partsDigest = payload.partsDigest

\* verifyAgentMessageWithDID(signedMessage, didDocument): the signature is one
\* the document's key made over the payload.
verifyAgentMessageWithDID(payload, signature, documentKey) ==
    signature = Signature(documentKey, payload.messageId, payload.partsDigest)

\* verifyAgentMessageWithDID throws on a document it cannot take a key from.
verificationThrows(documentKey) == documentKey = NULL

createSenderEnvelope(messageId, partsDigest, identity, at) ==
    [senderDid |-> identity.did,
     signature |-> Signature(identity.privateKey, messageId, partsDigest),
     timestamp |-> at,
     messageId |-> messageId]

VerifiedSender(did, signatureValid, didResolved, signedAt, resolveCalls) ==
    [did |-> did, signatureValid |-> signatureValid,
     didResolved |-> didResolved, signedAt |-> signedAt,
     resolveCalls |-> resolveCalls]

\* options?.maxMessageAge ?? 300_000
MaxAgeOf(maxMessageAge) == DefaultNumber(maxMessageAge, DefaultMaxMessageAge)

\* Variant: an envelope exactly maxAge old is rejected as stale.
verifySenderEnvelope_StrictAge(env, partsDigest, maxMessageAge, at, resolved) ==
    LET maxAge == MaxAgeOf(maxMessageAge)
        age == at - env.timestamp
    IN  IF age >= maxAge \/ age < -ClockSkew
        THEN VerifiedSender(env.senderDid, FALSE, FALSE, env.timestamp, 0)
        ELSE IF ~resolved.ok
        THEN VerifiedSender(env.senderDid, FALSE, FALSE, env.timestamp, 1)
        ELSE IF verificationThrows(resolved.key)
        THEN VerifiedSender(env.senderDid, FALSE, TRUE, env.timestamp, 1)
        ELSE VerifiedSender(env.senderDid,
                            verifyAgentMessageWithDID(
                                [messageId |-> env.messageId,
                                 partsDigest |-> partsDigest],
                                env.signature, resolved.key),
                            TRUE, env.timestamp, 1)

\* Variant: the sender's DID is resolved before the freshness check.
verifySenderEnvelope_ResolvesFirst(env, partsDigest, maxMessageAge, at, resolved) ==
    LET maxAge == MaxAgeOf(maxMessageAge)
        age == at - env.timestamp
    IN  IF ~resolved.ok
        THEN VerifiedSender(env.senderDid, FALSE, FALSE, env.timestamp, 1)
        ELSE IF age > maxAge \/ age < -ClockSkew
        THEN VerifiedSender(env.senderDid, FALSE, FALSE, env.timestamp, 1)
        ELSE IF verificationThrows(resolved.key)
        THEN VerifiedSender(env.senderDid, FALSE, TRUE, env.timestamp, 1)
        ELSE VerifiedSender(env.senderDid,
                            verifyAgentMessageWithDID(
                                [messageId |-> env.messageId,
                                 partsDigest |-> partsDigest],
                                env.signature, resolved.key),
                            TRUE, env.timestamp, 1)

\* Variant: didResolved is set only after the signature has been verified, so
\* a throw of the verification reports the DID as unresolved.
verifySenderEnvelope_ResolvedAfterVerify(env, partsDigest, maxMessageAge, at, resolved) ==
    LET maxAge == MaxAgeOf(maxMessageAge)
        age == at - env.timestamp
    IN  IF age > maxAge \/ age < -ClockSkew
        THEN VerifiedSender(env.senderDid, FALSE, FALSE, env.timestamp, 0)
        ELSE IF ~resolved.ok
        THEN VerifiedSender(env.senderDid, FALSE, FALSE, env.timestamp, 1)
        ELSE IF verificationThrows(resolved.key)
        THEN VerifiedSender(env.senderDid, FALSE, FALSE, env.timestamp, 1)
        ELSE VerifiedSender(env.senderDid,
                            verifyAgentMessageWithDID(
                                [messageId |-> env.messageId,
                                 partsDigest |-> partsDigest],
                                env.signature, resolved.key),
                            TRUE, env.timestamp, 1)

\* verifySenderEnvelope(envelope, partsDigest, {maxMessageAge}) at time `at`,
\* given what the resolver answers if asked; resolveCalls counts the calls of
\* didResolver.resolve. A throw of resolve or of the verification is caught:
\* didResolved tells which of the two had been passed.
verifySenderEnvelope(env, partsDigest, maxMessageAge, at, resolved) ==
    LET maxAge == MaxAgeOf(maxMessageAge)
        age == at - env.timestamp
    IN  IF age > maxAge \/ age < -ClockSkew
        THEN VerifiedSender(env.senderDid, FALSE, FALSE, env.timestamp, 0)
        ELSE IF ~resolved.ok
        THEN VerifiedSender(env.senderDid, FALSE, FALSE, env.timestamp, 1)
        ELSE IF verificationThrows(resolved.key)
        THEN VerifiedSender(env.senderDid, FALSE, TRUE, env.timestamp, 1)
        ELSE VerifiedSender(env.senderDid,
                            verifyAgentMessageWithDID(
                                [messageId |-> env.messageId,
                                 partsDigest |-> partsDigest],
                                env.signature, resolved.key),
                            TRUE, env.timestamp, 1)

NoEnvelope == [senderDid |-> NULL, signature |-> NoSignature, timestamp |-> 0,
               messageId |-> NULL]
NoSigned == [messageId |-> NULL, partsDigest |-> NULL,
             identity |-> [did |-> NULL, privateKey |-> NULL]]
NoResolved == [ok |-> FALSE, key |-> NULL]
NoVerified == [result |-> VerifiedSender(NULL, FALSE, FALSE, 0, 0),
               partsDigest |-> NULL, maxMessageAge |-> Unset, at |-> 0,
               resolved |-> NoResolved, envelope |-> NoEnvelope]

\* The maxMessageAge values a receiver passes (Unset = option left out).
MaxAgeOptions == {Unset, 2 * ClockSkew}

\* Time passes; the result of a verification is read when it returns and is
\* not kept.
Tick ==
    /\ now < MaxTicks * ClockSkew
    /\ now' = now + ClockSkew
    /\ verified' = NoVerified
    /\ UNCHANGED <<requestVars, connectVars, sessionVars>>
    /\ UNCHANGED <<messageVars, envelope, signedOver, gateVars, clientVars, delegationVars>>

\* How far a sender's clock runs ahead of the receiver's.
SenderClockOffsets == {0, ClockSkew, 2 * ClockSkew}

\* What a receiver can be handed for an envelope sent: the envelope itself, or
\* one whose senderDid or messageId was replaced on the way.
Received(env) ==
    {[env EXCEPT !.senderDid = did, !.messageId = messageId] :
        did \in SenderDIDs, messageId \in MessageIds}

\* A sender signs a message: createSenderEnvelope(messageId, digest, identity);
\* the timestamp is the sender's clock.
CreateEnvelope ==
    /\ \E messageId \in MessageIds, partsDigest \in Digests,
          identity \in Identities, offset \in SenderClockOffsets :
          /\ envelope' = createSenderEnvelope(messageId, partsDigest, identity,
                                              now + offset)
          /\ signedOver' = [messageId |-> messageId, partsDigest |-> partsDigest,
                            identity |-> identity]
    /\ verified' = NoVerified
    /\ UNCHANGED <<requestVars, connectVars, sessionVars>>
    /\ UNCHANGED <<messageVars, now, gateVars, clientVars, delegationVars>>

\* A receiver verifies the envelope it was handed against the digest it
\* computed from the parts it was handed.
VerifyEnvelope ==
    /\ envelope # NoEnvelope
    /\ \E env \in Received(envelope), partsDigest \in Digests,
          maxMessageAge \in MaxAgeOptions :
       \E resolved \in ResolverOutcomes(env.senderDid) :
          verified' = [result |-> verifySenderEnvelope(env, partsDigest,
                                                       maxMessageAge, now,
                                                       resolved),
                       partsDigest |-> partsDigest,
                       maxMessageAge |-> maxMessageAge, at |-> now,
                       resolved |-> resolved, envelope |-> env]
    /\ UNCHANGED <<requestVars, connectVars, sessionVars>>
    /\ UNCHANGED <<messageVars, now, envelope, signedOver, gateVars, clientVars,
                   delegationVars>>

----------------------------------------------------------------------------
(* user-delegation.ts : Layer 2, EIP-712 signed user delegations            *)

MillisPerSecond == 1000       \* Date.now() / 1000
DelegationEpoch == 60 * MillisPerSecond  \* the clock when the first delegation is signed
MaxHalfSeconds == 2           \* the clock runs MaxHalfSeconds half seconds on

\* Wallet private keys and the account address of each, as viem returns it
\* (checksummed, mixed case).
WalletKeys == {"wallet-1", "wallet-2"}
AddressOf(privateKey) == IF privateKey = "wallet-1" THEN "0xAbC1" ELSE "0xDeF2"
\* The address recovery yields for a signature made over other data: an
\* account nobody claims.
UnrelatedAddress == "0x9Fe3"
\* String.prototype.toLowerCase on the addresses of the model.
toLowerCase(address) ==
    CASE address = "0xAbC1" -> "0xabc1"
      [] address = "0xDeF2" -> "0xdef2"
      [] address = "0x9Fe3" -> "0x9fe3"
      [] OTHER -> address

\* Field values of a UserDelegation.
UserAddresses == {"0xAbC1", "0xabc1", "0xDeF2"}
DelegateDids == {"did:key:a", "did:key:b"}
Scopes == {"hotel-booking", "*"}
Nonces == {"nonce-1", "nonce-2"}
\* exp, in seconds relative to the second of signing.
ExpOffsets == {-60, 0, 1800}

\* The EIP-712 message signed and recovered from: the struct of
\* DELEGATION_TYPES; an address is encoded as its 20 bytes, whatever the case
\* it is written in.
TypedData(delegation) ==
    [userAddress |-> toLowerCase(delegation.userAddress),
     delegateDid |-> delegation.delegateDid,
     scope |-> delegation.scope,
     exp |-> delegation.exp,
     nonce |-> delegation.nonce]

NoDelegation == [userAddress |-> NULL, delegateDid |-> NULL, scope |-> NULL,
                 exp |-> 0, nonce |-> NULL]
\* A signature that is not a well-formed 65-byte hex value.
MalformedSignature == [key |-> NULL, message |-> TypedData(NoDelegation)]

signUserDelegation(delegation, privateKey) ==
    [delegation |-> delegation,
     signature |-> [key |-> privateKey, message |-> TypedData(delegation)]]

\* Variant: the scope is left out of the typed data recovered from.
recoverTypedDataAddress_WithoutScope(delegation, signature) ==
    IF signature.key = NULL THEN "throws"
    ELSE IF [signature.message EXCEPT !.scope = NULL] =
            [TypedData(delegation) EXCEPT !.scope = NULL]
    THEN AddressOf(signature.key)
    ELSE UnrelatedAddress

\* recoverTypedDataAddress({domain, types, primaryType, message, signature}):
\* throws on a malformed signature, else yields the signer's address when the
\* message is the one signed and an unrelated address when it is not.
recoverTypedDataAddress(delegation, signature) ==
    IF signature.key = NULL THEN "throws"
    ELSE IF signature.message = TypedData(delegation)
    THEN AddressOf(signature.key)
    ELSE UnrelatedAddress

VerifiedUser(address, delegatedTo, scope, valid, expired) ==
    [address |-> address, delegatedTo |-> delegatedTo, scope |-> scope,
     valid |-> valid, expired |-> expired]

\* Variant: the recovered address is compared with the claim case-sensitively.
verifyUserDelegation_CaseSensitive(env, expectedAgentDid, at) ==
    LET delegation == env.delegation
        expired == (at \div MillisPerSecond) > delegation.exp
        delegateMatch == IF Truthy(expectedAgentDid)
                         THEN delegation.delegateDid = expectedAgentDid
                         ELSE TRUE
        recoveredAddress == recoverTypedDataAddress(delegation, env.signature)
    IN  IF recoveredAddress = "throws"
        THEN VerifiedUser(delegation.userAddress, delegation.delegateDid,
                          delegation.scope, FALSE, expired)
        ELSE VerifiedUser(recoveredAddress, delegation.delegateDid,
                          delegation.scope,
                          /\ ~expired
                          /\ delegateMatch
                          /\ recoveredAddress = delegation.userAddress,
                          expired)

\* Variant: a delegation expires in the second of its exp.
verifyUserDelegation_ExpiresAtExp(env, expectedAgentDid, at) ==
    LET delegation == env.delegation
        expired == (at \div MillisPerSecond) >= delegation.exp
        delegateMatch == IF Truthy(expectedAgentDid)
                         THEN delegation.delegateDid = expectedAgentDid
                         ELSE TRUE
        recoveredAddress == recoverTypedDataAddress(delegation, env.signature)
    IN  IF recoveredAddress = "throws"
        THEN VerifiedUser(delegation.userAddress, delegation.delegateDid,
                          delegation.scope, FALSE, expired)
        ELSE VerifiedUser(recoveredAddress, delegation.delegateDid,
                          delegation.scope,
                          /\ ~expired
                          /\ delegateMatch
                          /\ toLowerCase(recoveredAddress) =
                                toLowerCase(delegation.userAddress),
                          expired)

\* Variant: a failed recovery reports the delegation as not expired.
verifyUserDelegation_FailureNotExpired(env, expectedAgentDid, at) ==
    LET delegation == env.delegation
        expired == (at \div MillisPerSecond) > delegation.exp
        delegateMatch == IF Truthy(expectedAgentDid)
                         THEN delegation.delegateDid = expectedAgentDid
                         ELSE TRUE
        recoveredAddress == recoverTypedDataAddress(delegation, env.signature)
    IN  IF recoveredAddress = "throws"
        THEN VerifiedUser(delegation.userAddress, delegation.delegateDid,
                          delegation.scope, FALSE, FALSE)
        ELSE VerifiedUser(recoveredAddress, delegation.delegateDid,
                          delegation.scope,
                          /\ ~expired
                          /\ delegateMatch
                          /\ toLowerCase(recoveredAddress) =
                                toLowerCase(delegation.userAddress),
                          expired)

\* verifyUserDelegation(envelope, expectedAgentDid) at time `at`.
verifyUserDelegation(env, expectedAgentDid, at) ==
    LET delegation == env.delegation
        expired == (at \div MillisPerSecond) > delegation.exp
        delegateMatch == IF Truthy(expectedAgentDid)
                         THEN delegation.delegateDid = expectedAgentDid
                         ELSE TRUE
        recoveredAddress == recoverTypedDataAddress(delegation, env.signature)
    IN  IF recoveredAddress = "throws"
        THEN VerifiedUser(delegation.userAddress, delegation.delegateDid,
                          delegation.scope, FALSE, expired)
        ELSE VerifiedUser(recoveredAddress, delegation.delegateDid,
                          delegation.scope,
                          /\ ~expired
                          /\ delegateMatch
                          /\ toLowerCase(recoveredAddress) =
                                toLowerCase(delegation.userAddress),
                          expired)

NoDelegationEnvelope == [delegation |-> NoDelegation,
                         signature |-> MalformedSignature]
NoDelegationSigned == [delegation |-> NoDelegation, privateKey |-> NULL]
NoVerifiedUser == [result |-> VerifiedUser(NULL, NULL, NULL, FALSE, FALSE),
                   envelope |-> NoDelegationEnvelope,
                   expectedAgentDid |-> UNDEFINED, at |-> 0,
                   replays |-> 0, wasValid |-> FALSE]

\* The expected agent DID a receiver passes: none, an empty string, or a DID.
ExpectedAgentDids == {UNDEFINED, ""} \cup DelegateDids

\* What a receiver can be handed for a delegation envelope sent: the envelope
\* itself, one with a single field replaced, or one with a signature that
\* cannot be recovered from.
ReceivedDelegations(env) ==
    {env, [env EXCEPT !.signature = MalformedSignature],
     [env EXCEPT !.delegation.exp = @ + 1800]} \cup
    {[env EXCEPT !.delegation.userAddress = a] : a \in UserAddresses} \cup
    {[env EXCEPT !.delegation.delegateDid = d] : d \in DelegateDids} \cup
    {[env EXCEPT !.delegation.scope = x] : x \in Scopes} \cup
    {[env EXCEPT !.delegation.nonce = n] : n \in Nonces}

\* Time passes, half a second at a time; the result of a verification is read
\* when it returns and is not kept.
DelegationTick ==
    /\ now < DelegationEpoch + MaxHalfSeconds * (MillisPerSecond \div 2)
    /\ now' = now + (MillisPerSecond \div 2)
    /\ verifiedUser' = NoVerifiedUser
    /\ UNCHANGED <<requestVars, connectVars, sessionVars>>
    /\ UNCHANGED <<messageVars, delegationEnvelope, delegationSigned, metadata, extracted,
                   envelope, signedOver, verified, gateVars, clientVars>>

\* A user signs a delegation with a wallet key: signUserDelegation.
SignDelegation ==
    /\ \E userAddress \in UserAddresses, delegateDid \in DelegateDids,
          scope \in Scopes, nonce \in Nonces, offset \in ExpOffsets,
          privateKey \in WalletKeys :
          LET delegation == [userAddress |-> userAddress,
                             delegateDid |-> delegateDid, scope |-> scope,
                             exp |-> (now \div MillisPerSecond) + offset,
                             nonce |-> nonce]
          IN  /\ delegationEnvelope' = signUserDelegation(delegation, privateKey)
              /\ delegationSigned' = [delegation |-> delegation,
                                      privateKey |-> privateKey]
    /\ verifiedUser' = NoVerifiedUser
    /\ UNCHANGED <<requestVars, connectVars, sessionVars>>
    /\ UNCHANGED <<messageVars, metadata, extracted, senderVars, gateVars, clientVars>>

\* A receiver verifies the delegation envelope it was handed.
VerifyDelegation ==
    /\ delegationEnvelope # NoDelegationEnvelope
    /\ \E env \in ReceivedDelegations(delegationEnvelope),
          expectedAgentDid \in ExpectedAgentDids :
          verifiedUser' = [result |-> verifyUserDelegation(env, expectedAgentDid,
                                                           now),
                           envelope |-> env,
                           expectedAgentDid |-> expectedAgentDid, at |-> now,
                           replays |-> 0,
                           wasValid |-> verifyUserDelegation(
                                            env, expectedAgentDid, now).valid]
    /\ UNCHANGED <<requestVars, connectVars, sessionVars>>
    /\ UNCHANGED <<messageVars, delegationEnvelope, delegationSigned, metadata, extracted,
                   senderVars, gateVars, clientVars>>

MaxReplays == 2   \* times one envelope is presented again

\* Variant: the verifier remembers the nonces it has seen and rejects a
\* delegation whose nonce it saw in an earlier call.
verifyUserDelegationAgain_NonceUsed(previous, at) ==
    [verifyUserDelegation(previous.envelope, previous.expectedAgentDid, at)
        EXCEPT !.valid = FALSE]

\* A later call of verifyUserDelegation with the arguments of an earlier one:
\* the function reads its arguments and the clock, and the module keeps
\* nothing of the earlier call for it to read.
verifyUserDelegationAgain(previous, at) ==
    verifyUserDelegation(previous.envelope, previous.expectedAgentDid, at)

\* Some time later a receiver is handed the envelope of the last
\* verification again, and verifies it with the same expected agent DID.
VerifyAgain ==
    /\ verifiedUser # NoVerifiedUser
    /\ verifiedUser.replays < MaxReplays
    /\ \E halfSeconds \in 0..MaxHalfSeconds :
          LET later == now + halfSeconds * (MillisPerSecond \div 2)
          IN  /\ later <= DelegationEpoch
                              + MaxHalfSeconds * (MillisPerSecond \div 2)
              /\ now' = later
              /\ verifiedUser' =
                     [verifiedUser EXCEPT
                         !.result = verifyUserDelegationAgain(verifiedUser,
                                                              later),
                         !.at = later,
                         !.replays = @ + 1]
    /\ UNCHANGED <<requestVars, connectVars, sessionVars>>
    /\ UNCHANGED <<messageVars, delegationEnvelope, delegationSigned, metadata, extracted,
                   envelope, signedOver, verified, gateVars, clientVars>>

----------------------------------------------------------------------------
(* user-delegation.ts : extractUserDelegation                               *)
(* A JavaScript value found in metadata is its type (typeof, with null and  *)
(* undefined told apart) and its text (String(value)); an absent property   *)
(* reads as undefined.                                                      *)

JSValue(type, text) == [type |-> type, text |-> text]
JSUndefined == JSValue("undefined", "undefined")
JSNull == JSValue("null", "null")

\* !value
Falsy(value) ==
    \/ value.type \in {"undefined", "null"}
    \/ value.type = "string" /\ value.text = ""
    \/ value.type \in {"number", "bigint"} /\ value.text = "0"
    \/ value.type = "boolean" /\ value.text = "false"

\* The integer a text spells, as StringToBigInt reads it (the empty text is
\* 0); NotAnInteger for a text that spells none.
NotAnInteger == -1
IntegerOf(text) ==
    CASE text = "1800" -> 1800
      [] text = "0" -> 0
      [] text = "" -> 0
      [] OTHER -> NotAnInteger

\* BigInt(value): the integer, or the error thrown.
BigInt(value) ==
    CASE value.type = "bigint" ->
            [ok |-> TRUE, value |-> IntegerOf(value.text), error |-> "none"]
      [] value.type = "number" ->
            IF IntegerOf(value.text) # NotAnInteger
            THEN [ok |-> TRUE, value |-> IntegerOf(value.text), error |-> "none"]
            ELSE [ok |-> FALSE, value |-> 0, error |-> "RangeError"]
      [] value.type = "string" ->
            IF IntegerOf(value.text) # NotAnInteger
            THEN [ok |-> TRUE, value |-> IntegerOf(value.text), error |-> "none"]
            ELSE [ok |-> FALSE, value |-> 0, error |-> "SyntaxError"]
      [] value.type = "boolean" ->
            [ok |-> TRUE, value |-> IF value.text = "true" THEN 1 ELSE 0,
             error |-> "none"]
      [] value.type = "object" ->
            [ok |-> FALSE, value |-> 0, error |-> "SyntaxError"]
      [] OTHER -> [ok |-> FALSE, value |-> 0, error |-> "TypeError"]

\* What a string-typed property can hold: the string, a value of another
\* type, or nothing.
PropertyValues(text) ==
    {JSValue("string", text), JSValue("number", "7"), JSUndefined}
\* What the exp property can hold.
ExpValues ==
    {JSValue("number", "1800"), JSValue("number", "1.5"),
     JSValue("string", "1800"), JSValue("string", "abc"), JSValue("string", ""),
     JSValue("bigint", "1800"), JSValue("boolean", "true"), JSNull,
     JSUndefined, JSValue("object", "[object Object]")}

\* The delegation property of an entry: an object with properties, or a
\* value that is no object.
NoProperties == [userAddress |-> JSUndefined, delegateDid |-> JSUndefined,
                 scope |-> JSUndefined, nonce |-> JSUndefined,
                 exp |-> JSUndefined]
DelegationProperties ==
    [userAddress : PropertyValues("0xAbC1"),
     delegateDid : PropertyValues("did:key:a"),
     scope : PropertyValues("hotel-booking"),
     nonce : PropertyValues("nonce-1"),
     exp : ExpValues]
DelegationValues ==
    {[type |-> "object", text |-> "[object Object]", properties |-> d] :
        d \in DelegationProperties} \cup
    {[type |-> v.type, text |-> v.text, properties |-> NoProperties] :
        v \in {JSNull, JSUndefined, JSValue("string", "delegation")}}

\* The value under USER_DELEGATION_EXTENSION: an object with a delegation and
\* a signature property, or a value that is no object.
NoEntry == [type |-> "undefined", text |-> "undefined",
            delegation |-> [type |-> "undefined", text |-> "undefined",
                            properties |-> NoProperties],
            signature |-> JSUndefined]
Entries ==
    {[type |-> "object", text |-> "[object Object]", delegation |-> d,
      signature |-> sig] :
        d \in DelegationValues, sig \in PropertyValues("0xabcdef")} \cup
    {[NoEntry EXCEPT !.type = v.type, !.text = v.text] :
        v \in {JSNull, JSUndefined, JSValue("string", "not-an-object")}}

\* The metadata argument: undefined, null, or a map whose entry under the
\* extension key is `entry` (NoEntry = the key is absent).
NoMetadata == [type |-> "undefined", entry |-> NoEntry]
MetadataMaps ==
    {NoMetadata, [type |-> "null", entry |-> NoEntry]} \cup
    {[type |-> "object", entry |-> e] : e \in Entries}

\* What an extractor call yields: null, an envelope, or a thrown error.
Extracted(type, error, delegation, signature) ==
    [type |-> type, error |-> error, delegation |-> delegation,
     signature |-> signature]
ExtractedNull == Extracted("null", "none", NoDelegation, "")
NoExtracted == Extracted("none", "none", NoDelegation, "")

\* extractUserDelegation(metadata)
extractUserDelegation(md) ==
    IF md.type \in {"undefined", "null"} THEN ExtractedNull
    ELSE IF Falsy(md.entry) \/ md.entry.type # "object" THEN ExtractedNull
    ELSE IF \/ Falsy(md.entry.delegation)
            \/ md.entry.delegation.type # "object"
            \/ md.entry.signature.type # "string"
    THEN ExtractedNull
    ELSE LET delegation == md.entry.delegation.properties
         IN  IF \/ delegation.userAddress.type # "string"
                \/ delegation.delegateDid.type # "string"
                \/ delegation.scope.type # "string"
                \/ delegation.nonce.type # "string"
                \/ delegation.exp.type = "undefined"
             THEN ExtractedNull
             ELSE IF ~BigInt(delegation.exp).ok
             THEN Extracted("throws", BigInt(delegation.exp).error,
                            NoDelegation, "")
             ELSE Extracted("envelope", "none",
                            [userAddress |-> delegation.userAddress.text,
                             delegateDid |-> delegation.delegateDid.text,
                             scope |-> delegation.scope.text,
                             exp |-> BigInt(delegation.exp).value,
                             nonce |-> delegation.nonce.text],
                            md.entry.signature.text)

\* A receiver reads the user delegation out of a message's metadata.
ExtractUserDelegation ==
    /\ extracted = NoExtracted
    /\ extracted' = extractUserDelegation(metadata)
    /\ UNCHANGED <<requestVars, connectVars, sessionVars>>
    /\ UNCHANGED <<messageVars, metadata, delegationEnvelope, delegationSigned,
                   verifiedUser, senderVars, gateVars, clientVars>>

----------------------------------------------------------------------------
(* sender-identity.ts : extractSenderEnvelope                               *)

\* What a property of the envelope object can hold: a value of the expected
\* type, a value of another type, null, or nothing.
SenderPropertyValues(type, text) ==
    {JSValue(type, text),
     JSValue(IF type = "string" THEN "number" ELSE "string", "1700000000000"),
     JSNull, JSUndefined}

\* The value under a metadata key: an object with the four properties, or a
\* value that is no object (NoSenderEntry = the key is absent).
NoSenderEntry == [type |-> "undefined", text |-> "undefined",
                  senderDid |-> JSUndefined, signature |-> JSUndefined,
                  timestamp |-> JSUndefined, messageId |-> JSUndefined]
SenderEntries ==
    {[type |-> "object", text |-> "[object Object]", senderDid |-> did,
      signature |-> sig, timestamp |-> ts, messageId |-> id] :
        did \in SenderPropertyValues("string", "did:key:a"),
        sig \in SenderPropertyValues("string", "c2lnbmF0dXJl"),
        ts \in SenderPropertyValues("number", "1700000000000"),
        id \in {JSValue("string", "msg-1"), JSValue("number", "7"),
                JSUndefined}} \cup
    {[NoSenderEntry EXCEPT !.type = v.type, !.text = v.text] :
        v \in {JSNull, JSUndefined, JSValue("string", "not-an-object"),
               JSValue("number", "0")}}
\* A complete envelope object.
CompleteSenderEntry ==
    [type |-> "object", text |-> "[object Object]",
     senderDid |-> JSValue("string", "did:key:b"),
     signature |-> JSValue("string", "b3RoZXI="),
     timestamp |-> JSValue("number", "1700000000000"),
     messageId |-> JSValue("string", "msg-2")]

\* The metadata argument: undefined, null, or a map with the value `entry`
\* under SENDER_IDENTITY_EXTENSION and the value `other` under another key.
NoSenderMetadata == [type |-> "undefined", entry |-> NoSenderEntry,
                     other |-> NoSenderEntry]
SenderMetadataMaps ==
    {NoSenderMetadata, [NoSenderMetadata EXCEPT !.type = "null"]} \cup
    {[type |-> "object", entry |-> e, other |-> o] :
        e \in SenderEntries, o \in {NoSenderEntry, CompleteSenderEntry}}

\* What extractSenderEnvelope yields: null, or the object found.
ExtractedSender(type, found) == [type |-> type, envelope |-> found]
ExtractedSenderNull == ExtractedSender("null", NoSenderEntry)

\* Variant: the timestamp's type is not looked at.
extractSenderEnvelope_AnyTimestamp(md) ==
    IF md.type \in {"undefined", "null"} THEN ExtractedSenderNull
    ELSE IF Falsy(md.entry) \/ md.entry.type # "object" THEN ExtractedSenderNull
    ELSE IF \/ md.entry.senderDid.type # "string"
            \/ md.entry.signature.type # "string"
            \/ md.entry.messageId.type # "string"
    THEN ExtractedSenderNull
    ELSE ExtractedSender("envelope", md.entry)

\* Variant: an envelope missing under the extension key is looked for under
\* the other key.
extractSenderEnvelope_AnyKey(md) ==
    IF md.type \in {"undefined", "null"} THEN ExtractedSenderNull
    ELSE LET raw == IF Falsy(md.entry) THEN md.other ELSE md.entry
         IN  IF Falsy(raw) \/ raw.type # "object" THEN ExtractedSenderNull
             ELSE IF \/ raw.senderDid.type # "string"
                     \/ raw.signature.type # "string"
                     \/ raw.timestamp.type # "number"
                     \/ raw.messageId.type # "string"
             THEN ExtractedSenderNull
             ELSE ExtractedSender("envelope", raw)

\* extractSenderEnvelope(metadata)
extractSenderEnvelope(md) ==
    IF md.type \in {"undefined", "null"} THEN ExtractedSenderNull
    ELSE IF Falsy(md.entry) \/ md.entry.type # "object" THEN ExtractedSenderNull
    ELSE IF \/ md.entry.senderDid.type # "string"
            \/ md.entry.signature.type # "string"
            \/ md.entry.timestamp.type # "number"
            \/ md.entry.messageId.type # "string"
    THEN ExtractedSenderNull
    ELSE ExtractedSender("envelope", md.entry)

\* A receiver reads the sender envelope out of a message's metadata.
ExtractSenderEnvelope ==
    /\ extracted = NoExtracted
    /\ extracted' = extractSenderEnvelope(metadata)
    /\ UNCHANGED <<requestVars, connectVars, sessionVars>>
    /\ UNCHANGED <<messageVars, metadata, delegationEnvelope, delegationSigned,
                   verifiedUser, senderVars, gateVars, clientVars>>

----------------------------------------------------------------------------
(* types.ts : buildMessageParts, buildMessageSendParams                     *)
(* sender-identity.ts : computePartsDigest                                  *)

SENDER_IDENTITY_EXTENSION == "urn:aletheia:sender-identity:v1"
USER_DELEGATION_EXTENSION == "urn:aletheia:user-delegation:v1"

\* A JavaScript object with string values: its properties in the order they
\* were written, each a <<key, value>> pair. Objects with the same
\* properties can differ in that order.
DataObjects ==
    {<<>>, << <<"a", "1">> >>, << <<"a", "2">> >>,
     << <<"a", "1">>, <<"b", "2">> >>, << <<"b", "2">>, <<"a", "1">> >>}
\* What an object holds, whatever the order: its set of properties.
Properties(object) == {object[i] : i \in 1..Len(object)}

\* A Part of the A2A protocol: {kind: "text", text} or {kind: "data", data}.
TextPart(text) == [kind |-> "text", text |-> text, data |-> <<>>]
DataPart(data) == [kind |-> "data", text |-> "", data |-> data]
Texts == {"hello", "world"}
Parts == {TextPart(t) : t \in Texts} \cup {DataPart(d) : d \in DataObjects}

\* The input of send: a string, or a MessageInput whose text, data and parts
\* are each given or left out (text "" is given and falsy; parts <<>> is an
\* empty array).
StringInput(text) ==
    [type |-> "string", text |-> text, hasData |-> FALSE, data |-> <<>>,
     hasParts |-> FALSE, parts |-> <<>>]
MessageInputs ==
    {StringInput(t) : t \in Texts \cup {""}} \cup
    {[type |-> "object", text |-> t, hasData |-> d # <<>>, data |-> d,
      hasParts |-> hasParts,
      parts |-> IF hasParts THEN << DataPart(<< <<"b", "2">>, <<"a", "1">> >>) >>
                ELSE <<>>] :
        t \in {"", "hello"},
        d \in {<<>>, << <<"a", "1">>, <<"b", "2">> >>},
        hasParts \in BOOLEAN}

\* buildMessageParts(input).parts
buildMessageParts(input) ==
    IF input.type = "string" THEN << TextPart(input.text) >>
    ELSE (IF input.text # "" THEN << TextPart(input.text) >> ELSE <<>>)
         \o (IF input.hasData THEN << DataPart(input.data) >> ELSE <<>>)
         \o (IF input.hasParts THEN input.parts ELSE <<>>)

\* JSON.stringify, as the sequence of tokens it writes: an object's
\* properties are written in the order the object holds them.
RECURSIVE StringifyMembers(_)
StringifyMembers(object) ==
    IF object = <<>> THEN <<>>
    ELSE << "\"", object[1][1], "\"", ":", "\"", object[1][2], "\"" >>
         \o (IF Len(object) > 1 THEN << "," >> ELSE <<>>)
         \o StringifyMembers(Tail(object))
StringifyObject(object) == << "{" >> \o StringifyMembers(object) \o << "}" >>
StringifyPart(part) ==
    IF part.kind = "text"
    THEN StringifyObject(<< <<"kind", "text">>, <<"text", part.text>> >>)
    ELSE << "{", "\"", "kind", "\"", ":", "\"", "data", "\"", ",",
            "\"", "data", "\"", ":" >>
         \o StringifyObject(part.data) \o << "}" >>
RECURSIVE StringifyElements(_)
StringifyElements(parts) ==
    IF parts = <<>> THEN <<>>
    ELSE StringifyPart(parts[1])
         \o (IF Len(parts) > 1 THEN << "," >> ELSE <<>>)
         \o StringifyElements(Tail(parts))
JSONstringify(parts) == << "[" >> \o StringifyElements(parts) \o << "]" >>

\* SHA-256 of a byte string in hex: 32 bytes written as two digits each, and
\* no two byte strings anyone can produce share a hash.
HexDigits == 64
Sha256Hex(bytes) == [hexDigits |-> HexDigits, of |-> bytes]

\* computePartsDigest(parts)
computePartsDigest(parts) == Sha256Hex(JSONstringify(parts))

\* What a list of parts says, whatever the order its data objects were
\* written in.
RECURSIVE Content(_)
Content(parts) ==
    IF parts = <<>> THEN <<>>
    ELSE << [kind |-> parts[1].kind, text |-> parts[1].text,
             data |-> Properties(parts[1].data)] >>
         \o Content(Tail(parts))

\* The part lists a digest is computed from.
PartLists ==
    {<<>>} \cup {<<p>> : p \in Parts} \cup {<<p, q>> : p \in Parts, q \in Parts}

NoDigested == [first |-> <<>>, second |-> <<>>,
               firstDigest |-> Sha256Hex(<<>>),
               secondDigest |-> Sha256Hex(<<>>), computed |-> FALSE]

\* computePartsDigest is called on one list of parts and on another.
ComputePartsDigests ==
    /\ ~digested.computed
    /\ \E first \in PartLists, second \in PartLists :
          digested' = [first |-> first, second |-> second,
                       firstDigest |-> computePartsDigest(first),
                       secondDigest |-> computePartsDigest(second),
                       computed |-> TRUE]
    /\ UNCHANGED <<built, requestVars, connectVars, sessionVars>>
    /\ UNCHANGED <<gateVars, clientVars, senderVars, delegationVars>>

\* The metadata of a message: absent, or a map holding the envelopes under
\* the keys in `keys`.
Metadata(keys, sender, delegation) ==
    [present |-> keys # {}, keys |-> keys, sender |-> sender,
     delegation |-> delegation]

\* The options of buildMessageSendParams: a signing identity and a user
\* delegation, each given or left out.
NoIdentity == [did |-> NULL, privateKey |-> NULL]
SampleDelegation ==
    signUserDelegation([userAddress |-> "0xAbC1", delegateDid |-> "did:key:a",
                        scope |-> "hotel-booking", exp |-> 1800,
                        nonce |-> "nonce-1"], "wallet-1")
BuildOptions ==
    [signingIdentity : Identities \cup {NoIdentity},
     userDelegation : {NoDelegationEnvelope, SampleDelegation}]

\* Variant: the envelope is made for a message id drawn anew.
BuiltMessage_OtherMessageId(input, options, uuid, at) ==
    LET parts == buildMessageParts(input)
        other == CHOOSE id \in MessageIds : id # uuid
        signs == options.signingIdentity # NoIdentity
        delegates == options.userDelegation # NoDelegationEnvelope
    IN  [messageId |-> uuid,
         parts |-> parts,
         metadata |->
            Metadata((IF signs THEN {SENDER_IDENTITY_EXTENSION} ELSE {})
                        \cup (IF delegates THEN {USER_DELEGATION_EXTENSION}
                              ELSE {}),
                     IF signs
                     THEN createSenderEnvelope(other,
                                               computePartsDigest(parts),
                                               options.signingIdentity, at)
                     ELSE NoEnvelope,
                     options.userDelegation)]

\* buildMessageSendParams(input, options).message at time `at`, with
\* crypto.randomUUID() returning uuid: its id, parts and metadata.
BuiltMessage(input, options, uuid, at) ==
    LET parts == buildMessageParts(input)
        signs == options.signingIdentity # NoIdentity
        delegates == options.userDelegation # NoDelegationEnvelope
    IN  [messageId |-> uuid,
         parts |-> parts,
         metadata |->
            Metadata((IF signs THEN {SENDER_IDENTITY_EXTENSION} ELSE {})
                        \cup (IF delegates THEN {USER_DELEGATION_EXTENSION}
                              ELSE {}),
                     IF signs
                     THEN createSenderEnvelope(uuid,
                                               computePartsDigest(parts),
                                               options.signingIdentity, at)
                     ELSE NoEnvelope,
                     options.userDelegation)]

\* A message's metadata as the argument of extractSenderEnvelope, and the
\* object found in it as a SenderIdentityEnvelope.
SenderMetadataOf(md) ==
    [type |-> IF md.present THEN "object" ELSE "undefined",
     entry |-> IF SENDER_IDENTITY_EXTENSION \in md.keys
               THEN [type |-> "object", text |-> "[object Object]",
                     senderDid |-> JSValue("string", md.sender.senderDid),
                     signature |-> JSValue("string", md.sender.signature),
                     timestamp |-> JSValue("number", md.sender.timestamp),
                     messageId |-> JSValue("string", md.sender.messageId)]
               ELSE NoSenderEntry,
     other |-> NoSenderEntry]
EnvelopeOf(found) ==
    [senderDid |-> found.senderDid.text, signature |-> found.signature.text,
     timestamp |-> found.timestamp.text, messageId |-> found.messageId.text]

\* What the receiver of a message makes of its sender envelope:
\* verifySenderEnvelope(extractSenderEnvelope(message.metadata),
\* computePartsDigest(message.parts)), or nothing when there is no envelope.
NoReceipt == [received |-> FALSE, extracted |-> FALSE, resolved |-> NoResolved,
              at |-> 0, result |-> VerifiedSender(NULL, FALSE, FALSE, 0, 0)]
Receipt(message, at, resolved) ==
    LET found == extractSenderEnvelope(SenderMetadataOf(message.metadata))
    IN  IF found.type # "envelope"
        THEN [NoReceipt EXCEPT !.received = TRUE, !.at = at]
        ELSE [received |-> TRUE, extracted |-> TRUE, resolved |-> resolved,
              at |-> at,
              result |-> verifySenderEnvelope(EnvelopeOf(found.envelope),
                                              computePartsDigest(message.parts),
                                              Unset, at, resolved)]

NoBuilt == [via |-> "none", input |-> StringInput(""),
            options |-> [signingIdentity |-> NoIdentity,
                         userDelegation |-> NoDelegationEnvelope],
            message |-> BuiltMessage(StringInput(""),
                                     [signingIdentity |-> NoIdentity,
                                      userDelegation |-> NoDelegationEnvelope],
                                     NULL, 0),
            receipt |-> NoReceipt]

\* A sender builds a message: buildMessageSendParams(input, options).
BuildMessage ==
    /\ built = NoBuilt
    /\ \E input \in MessageInputs, options \in BuildOptions,
          uuid \in MessageIds :
          built' = [via |-> "buildMessageSendParams", input |-> input,
                    options |-> options,
                    message |-> BuiltMessage(input, options, uuid, now),
                    receipt |-> NoReceipt]
    /\ UNCHANGED <<digested, requestVars, connectVars, sessionVars>>
    /\ UNCHANGED <<gateVars, clientVars, senderVars, delegationVars>>

\* AletheiaA2AConfig with the signing options: signOutboundMessages and a
\* signingIdentity (NoIdentity = left out). The constructor of AletheiaA2A
\* throws on signOutboundMessages without a signingIdentity.
SigningConfigs ==
    {c \in {[verifyIdentity |-> s.verifyIdentity,
             livenessCheckBeforeSend |-> s.livenessCheckBeforeSend,
             minTrustScore |-> s.minTrustScore,
             requireLive |-> s.requireLive,
             contextStore |-> s.contextStore,
             signOutboundMessages |-> signs,
             signingIdentity |-> identity] :
                s \in SessionConfigs, signs \in BOOLEAN,
                identity \in {NoIdentity,
                              [did |-> "did:key:a", privateKey |-> "key-a"]}} :
        ~(c.signOutboundMessages /\ c.signingIdentity = NoIdentity)}

\* The options TrustedAgent.send and stream pass to buildMessageSendParams:
\* the caller's SendOptions with contextId, taskId and blocking set. A
\* TrustedAgent keeps no signing identity (its constructor reads none from
\* its argument), and SendOptions names neither a signing identity nor a
\* user delegation.
messageOptions(ta) ==
    [signingIdentity |-> NoIdentity, userDelegation |-> NoDelegationEnvelope]

\* The ways a message leaves a client: TrustedAgent.send and stream, and
\* sendByCapability and streamByCapability, which call them on the
\* connection _connectAgent returns.
Ways == {"send", "stream", "sendByCapability", "streamByCapability"}

\* A message goes out over connection h: the building of its parameters.
SendMessage(h) ==
    /\ \E via \in Ways, input \in MessageInputs, uuid \in MessageIds :
          built' = [via |-> via, input |-> input,
                    options |-> messageOptions(handles[h]),
                    message |-> BuiltMessage(input, messageOptions(handles[h]),
                                             uuid, now),
                    receipt |-> NoReceipt]
    /\ UNCHANGED <<digested, requestVars, connectVars, sessionVars>>
    /\ UNCHANGED <<gateVars, clientVars, senderVars, delegationVars>>

\* The receiver of the message built reads and verifies its sender envelope.
ReceiveMessage ==
    /\ built # NoBuilt
    /\ ~built.receipt.received
    /\ \E resolved \in ResolverOutcomes(
                           IF built.message.metadata.sender = NoEnvelope
                           THEN "did:key:a"
                           ELSE built.message.metadata.sender.senderDid) :
          built' = [built EXCEPT
                       !.receipt = Receipt(built.message, now, resolved)]
    /\ UNCHANGED <<digested, requestVars, connectVars, sessionVars>>
    /\ UNCHANGED <<gateVars, clientVars, senderVars, delegationVars>>

----------------------------------------------------------------------------
(* sender-identity.ts, user-delegation.ts : request-scoped storage          *)
(* A WeakMap holds an entry for a key object as long as the object lives:   *)
(* nothing deletes an entry, and the entry goes when the garbage collector  *)
(* reclaims the key.                                                        *)

\* The context objects of the requests a process handles.
RequestContexts == {"request-1", "request-2"}
\* Where a context object is in its life: not created yet, held by a request
\* being handled, left behind by a completed request, reclaimed.
ContextLives == {"none", "handling", "completed", "collected"}

\* Results the handler wrapper stores.
StoredSenders ==
    {VerifiedSender("did:key:a", TRUE, TRUE, 0, 1),
     VerifiedSender("did:key:b", FALSE, TRUE, 0, 1)}
StoredUsers ==
    {VerifiedUser("0xAbC1", "did:key:a", "hotel-booking", TRUE, FALSE),
     VerifiedUser("0xDeF2", "did:key:b", "*", FALSE, TRUE)}
\* What get returns for a key without an entry.
UndefinedSender == VerifiedSender(UNDEFINED, FALSE, FALSE, 0, 0)
UndefinedUser == VerifiedUser(UNDEFINED, UNDEFINED, UNDEFINED, FALSE, FALSE)

\* Variant: one process-wide slot instead of an entry per context.
WeakMapSet_ProcessWide(map, key, value) == [k \in DOMAIN map |-> value]

\* WeakMap.prototype.set / get
WeakMapSet(map, key, value) == [map EXCEPT ![key] = value]
WeakMapGet(map, key) == map[key]

\* Variant: a Map, which keeps the entry of a key nothing else refers to.
WeakMapReclaim_Strong(map, key, undefined) == map

\* The entry of a key object goes with the object.
WeakMapReclaim(map, key, undefined) == [map EXCEPT ![key] = undefined]

setVerifiedSender(map, context, sender) == WeakMapSet(map, context, sender)
getVerifiedSender(map, context) == WeakMapGet(map, context)
setVerifiedUser(map, context, user) == WeakMapSet(map, context, user)
getVerifiedUser(map, context) == WeakMapGet(map, context)

NoGot == [map |-> "none", context |-> NULL, sender |-> UndefinedSender,
          user |-> UndefinedUser]
NothingStored == [sender |-> [c \in RequestContexts |-> UndefinedSender],
                  user |-> [c \in RequestContexts |-> UndefinedUser]]

\* Code that holds a context object can call set and get with it.
Held(c) == contexts[c] \in {"handling", "completed"}

\* A request arrives and its context object is created.
BeginRequest(c) ==
    /\ contexts[c] = "none"
    /\ contexts' = [contexts EXCEPT ![c] = "handling"]
    /\ UNCHANGED <<verifiedSenderMap, verifiedUserMap, lastStored, lastGet>>
    /\ UNCHANGED <<messageVars, gateVars, clientVars, senderVars, delegationVars, connectVars,
                   sessionVars>>

\* setVerifiedSender(context, sender); what an earlier get returned has been
\* read by then and is not kept.
SetVerifiedSender(c) ==
    /\ Held(c)
    /\ \E sender \in StoredSenders :
          /\ verifiedSenderMap' = setVerifiedSender(verifiedSenderMap, c, sender)
          /\ lastStored' = [lastStored EXCEPT !.sender[c] = sender]
    /\ lastGet' = NoGot
    /\ UNCHANGED <<contexts, verifiedUserMap>>
    /\ UNCHANGED <<messageVars, gateVars, clientVars, senderVars, delegationVars, connectVars,
                   sessionVars>>

\* setVerifiedUser(context, user)
SetVerifiedUser(c) ==
    /\ Held(c)
    /\ \E user \in StoredUsers :
          /\ verifiedUserMap' = setVerifiedUser(verifiedUserMap, c, user)
          /\ lastStored' = [lastStored EXCEPT !.user[c] = user]
    /\ lastGet' = NoGot
    /\ UNCHANGED <<contexts, verifiedSenderMap>>
    /\ UNCHANGED <<messageVars, gateVars, clientVars, senderVars, delegationVars, connectVars,
                   sessionVars>>

\* getVerifiedSender(context)
GetVerifiedSender(c) ==
    /\ Held(c)
    /\ lastGet' = [map |-> "sender", context |-> c,
               sender |-> getVerifiedSender(verifiedSenderMap, c),
               user |-> UndefinedUser]
    /\ UNCHANGED <<contexts, verifiedSenderMap, verifiedUserMap, lastStored>>
    /\ UNCHANGED <<messageVars, gateVars, clientVars, senderVars, delegationVars, connectVars,
                   sessionVars>>

\* getVerifiedUser(context)
GetVerifiedUser(c) ==
    /\ Held(c)
    /\ lastGet' = [map |-> "user", context |-> c, sender |-> UndefinedSender,
               user |-> getVerifiedUser(verifiedUserMap, c)]
    /\ UNCHANGED <<contexts, verifiedSenderMap, verifiedUserMap, lastStored>>
    /\ UNCHANGED <<messageVars, gateVars, clientVars, senderVars, delegationVars, connectVars,
                   sessionVars>>

\* The request completes; its context object is still in memory.
CompleteRequest(c) ==
    /\ contexts[c] = "handling"
    /\ contexts' = [contexts EXCEPT ![c] = "completed"]
    /\ UNCHANGED <<verifiedSenderMap, verifiedUserMap, lastStored, lastGet>>
    /\ UNCHANGED <<messageVars, gateVars, clientVars, senderVars, delegationVars, connectVars,
                   sessionVars>>

\* The garbage collector reclaims the context object of a completed request
\* and, with it, its entries in the two WeakMaps.
CollectContext(c) ==
    /\ contexts[c] = "completed"
    /\ contexts' = [contexts EXCEPT ![c] = "collected"]
    /\ verifiedSenderMap' = WeakMapReclaim(verifiedSenderMap, c, UndefinedSender)
    /\ verifiedUserMap' = WeakMapReclaim(verifiedUserMap, c, UndefinedUser)
    /\ UNCHANGED <<lastStored, lastGet>>
    /\ UNCHANGED <<messageVars, gateVars, clientVars, senderVars, delegationVars, connectVars,
                   sessionVars>>

----------------------------------------------------------------------------
(* Specifications *)

DefaultConfig == [verifyIdentity |-> UNDEFINED,
                  livenessCheckBeforeSend |-> UNDEFINED,
                  minTrustScore |-> Unset, requireLive |-> UNDEFINED,
                  contextStore |-> FALSE]

\* Nothing is connected, in flight or verified.
Quiet ==
    /\ gateResult = NoGateResult
    /\ connectionCache = [d \in DIDs |-> 0]
    /\ handles = <<>>
    /\ stream = 0
    /\ store = [k \in StoreKeys |-> NoContext]
    /\ pending = {}
    /\ last = NoCall
    /\ envelope = NoEnvelope
    /\ signedOver = NoSigned
    /\ verified = NoVerified
    /\ delegationEnvelope = NoDelegationEnvelope
    /\ delegationSigned = NoDelegationSigned
    /\ verifiedUser = NoVerifiedUser
    /\ extracted = NoExtracted
    /\ contexts = [c \in RequestContexts |-> "none"]
    /\ verifiedSenderMap = NothingStored.sender
    /\ verifiedUserMap = NothingStored.user
    /\ lastStored = NothingStored
    /\ lastGet = NoGot
    /\ urlConnectionCache = [k \in UrlCacheKeys |-> 0]
    /\ connecting = {}
    /\ returned = {}
    /\ snapshots = <<>>
    /\ trustInfoOf = <<>>
    /\ issued = {}
    /\ streamed = NoStreamed
    /\ outbound = NoOutbound
    /\ probed = FALSE
    /\ built = NoBuilt
    /\ digested = NoDigested

Idle ==
    /\ Quiet
    /\ gateCall = NoGateCall
    /\ now = 0
    /\ metadata = NoMetadata

\* The trust pipeline on its own.
GateInit ==
    /\ Quiet
    /\ gateCall \in GateCalls
    /\ config = DefaultConfig
    /\ now = 0
    /\ metadata = NoMetadata
GateNext == CallGate
GateSpec == GateInit /\ [][GateNext]_vars

\* A client constructed with any configuration.
Init == Idle /\ config \in ClientConfigs
Next ==
    \/ \E did \in DIDs : Connect(did)
    \/ SendByCapability
    \/ StreamByCapability
    \/ StreamEvent
    \/ StreamEnd
    \/ \E did \in DIDs : DisconnectAgent(did)
Spec == Init /\ [][Next]_vars

\* Senders and receivers of signed messages.
SenderInit == Idle /\ config = DefaultConfig
SenderNext ==
    \/ Tick
    \/ CreateEnvelope
    \/ VerifyEnvelope
SenderSpec == SenderInit /\ [][SenderNext]_vars

\* Users signing delegations and receivers verifying them.
DelegationInit ==
    /\ Quiet
    /\ gateCall = NoGateCall
    /\ config = DefaultConfig
    /\ now = DelegationEpoch
    /\ metadata = NoMetadata
DelegationNext ==
    \/ DelegationTick
    \/ SignDelegation
    \/ VerifyDelegation
DelegationSpec == DelegationInit /\ [][DelegationNext]_vars

\* Receivers that are handed the same delegation envelope again and again:
\* a delegation is signed, verified and then presented again.
ReplayInit == DelegationInit
ReplaySign == verifiedUser = NoVerifiedUser /\ SignDelegation
ReplayNext ==
    \/ ReplaySign
    \/ VerifyDelegation
    \/ VerifyAgain
ReplaySpec == ReplayInit /\ [][ReplayNext]_vars

\* Digests computed from parts callers wrote.
DigestInit == Idle /\ config = DefaultConfig
DigestNext == ComputePartsDigests
DigestSpec == DigestInit /\ [][DigestNext]_vars

\* Messages built by a sender and read by their receiver, as time passes.
BuildInit == Idle /\ config = DefaultConfig
BuildNext ==
    \/ BuildMessage
    \/ ReceiveMessage
    \/ Tick
BuildSpec == BuildInit /\ [][BuildNext]_vars

\* A client constructed with or without the signing options, its
\* connections and the messages that go out over them.
SigningInit == Idle /\ config \in SigningConfigs
SigningNext ==
    \/ \E did \in CallDIDs : SessionConnect(did)
    \/ \E h \in 1..Len(handles) : SendMessage(h)
    \/ ReceiveMessage
SigningSpec == SigningInit /\ [][SigningNext]_vars

\* A client whose connections track, persist, restore and reset their
\* conversation context, with the store completing what it was handed.
StoreInit == Idle /\ config \in StoreConfigs
StoreNext ==
    \/ \E did \in CallDIDs : StoreConnect(did)
    \/ \E h \in 1..Len(handles) : StoreSend(h)
    \/ \E h \in 1..Len(handles) : StoreStreamEvent(h)
    \/ \E h \in 1..Len(handles) : ResetContext(h)
    \/ StoreComplete
    \/ ClearConnections
StoreSpec == StoreInit /\ [][StoreNext]_vars

\* A receiver extracting an envelope from any metadata.
ExtractInit ==
    /\ Quiet
    /\ gateCall = NoGateCall
    /\ config = DefaultConfig
    /\ now = 0
    /\ metadata \in MetadataMaps
ExtractNext == ExtractUserDelegation
ExtractSpec == ExtractInit /\ [][ExtractNext]_vars

\* A receiver extracting a sender envelope from any metadata.
ExtractSenderInit ==
    /\ Quiet
    /\ gateCall = NoGateCall
    /\ config = DefaultConfig
    /\ now = 0
    /\ metadata \in SenderMetadataMaps
ExtractSenderNext == ExtractSenderEnvelope
ExtractSenderSpec == ExtractSenderInit /\ [][ExtractSenderNext]_vars

\* A process handling requests concurrently, each with its own context.
RequestInit == Idle /\ config = DefaultConfig
RequestNext ==
    \/ \E c \in RequestContexts : BeginRequest(c)
    \/ \E c \in RequestContexts : SetVerifiedSender(c)
    \/ \E c \in RequestContexts : SetVerifiedUser(c)
    \/ \E c \in RequestContexts : GetVerifiedSender(c)
    \/ \E c \in RequestContexts : GetVerifiedUser(c)
    \/ \E c \in RequestContexts : CompleteRequest(c)
    \/ \E c \in RequestContexts : CollectContext(c)
RequestSpec == RequestInit /\ [][RequestNext]_vars

\* Callers of one client connecting to the same agent concurrently.
ConnectInit == Idle /\ config = DefaultConfig
ConnectNext ==
    \/ \E did \in CallDIDs : StartConnect(did)
    \/ \E call \in connecting : ResumeRefresh(call)
    \/ \E call \in connecting : ResumeGetAgent(call)
    \/ \E call \in connecting : ResumeReverify(call)
    \/ \E call \in connecting : ResumeVerify(call)
    \/ \E h \in 1..Len(handles) : Exchange(h)
ConnectSpec == ConnectInit /\ [][ConnectNext]_vars

\* Callers of one client connecting by URL, with and without a scope, and
\* by DID.
UrlInit == Idle /\ config = DefaultConfig
UrlNext ==
    \/ \E url \in Urls, scope \in UrlScopes : ConnectByUrl(url, scope)
    \/ \E did \in DIDs : Connect(did)
    \/ ClearConnections
UrlSpec == UrlInit /\ [][UrlNext]_vars

\* A caller using the connections of one client: connecting, sending,
\* streaming and refreshing trust.
SessionInit == Idle /\ config \in SessionConfigs
SessionNext ==
    \/ \E did \in CallDIDs : SessionConnect(did)
    \/ SessionSendByCapability
    \/ \E h \in 1..Len(handles) : SessionSend(h)
    \/ \E h \in 1..Len(handles) : SessionStream(h)
    \/ SessionStreamEvent
    \/ SessionStreamEnd
    \/ \E h \in 1..Len(handles) : RefreshTrust(h)
SessionSpec == SessionInit /\ [][SessionNext]_vars

----------------------------------------------------------------------------
(* Properties of the trust pipeline (GateSpec)                              *)

GateReturned == gateResult # NoGateResult
Policy == gateCall.pipelineConfig
\* The identity stage lets the call through.
IdentityPasses == ~Policy.verifyIdentity \/ gateCall.resolveOut.ok
\* The liveness stage's verdict on the call's inputs.
LivenessFails ==
    IF Policy.livenessCheckBeforeSend
    THEN ~(gateCall.liveOut.ok /\ gateCall.liveOut.value)
    ELSE Policy.requireLive /\ ~gateCall.agent.isLive
\* The agent's score is under the policy's threshold.
BelowThreshold ==
    /\ Policy.minTrustScore > 0
    /\ \/ gateCall.agent.trustScore = NullScore
       \/ gateCall.agent.trustScore < Policy.minTrustScore
ReachedReputation == IdentityPasses /\ ~LivenessFails

\* C1: the stages run in the order identity, liveness, reputation and the
\* first failing stage ends the call: a failing resolveDID gives
\* DIDResolutionError with checkLiveness never called, whatever the agent's
\* liveness and score; a failing liveness stage gives AgentNotLiveError
\* whatever the score.
C1_StagesInOrder ==
    GateReturned =>
        /\ gateResult.calls \in {<< >>, <<"resolveDID">>, <<"checkLiveness">>,
                                 <<"resolveDID", "checkLiveness">>}
        /\ ~IdentityPasses =>
              /\ gateResult.error.name = "DIDResolutionError"
              /\ gateResult.calls = <<"resolveDID">>
        /\ (IdentityPasses /\ LivenessFails) =>
              gateResult.error.name = "AgentNotLiveError"
        /\ (IdentityPasses /\ ~LivenessFails /\ BelowThreshold) =>
              gateResult.error.name = "TrustScoreBelowThresholdError"

\* resolveDID failed for an agent that is also offline, unprobeable and below
\* the threshold.
C1_Witness ==
    /\ GateReturned
    /\ ~IdentityPasses
    /\ Policy.livenessCheckBeforeSend /\ ~gateCall.liveOut.ok
    /\ ~gateCall.agent.isLive
    /\ BelowThreshold
    /\ gateResult.error.name = "DIDResolutionError"

\* C4: on success the snapshot has didVerified equal to the policy's
\* verifyIdentity flag, isLive, trustScore and isBattleTested copied from the
\* agent, and responseVerified null.
C4_SnapshotReflectsPolicy ==
    (GateReturned /\ gateResult.error = NoError) =>
        /\ gateResult.trustInfo.didVerified = Policy.verifyIdentity
        /\ gateResult.trustInfo.isLive = gateCall.agent.isLive
        /\ gateResult.trustInfo.trustScore = gateCall.agent.trustScore
        /\ gateResult.trustInfo.isBattleTested = gateCall.agent.isBattleTested
        /\ gateResult.trustInfo.responseVerified = NULL

\* C5: with verifyIdentity=false resolveDID is never called, and the liveness
\* and reputation stages decide exactly as they do with verifyIdentity=true
\* and a DID that resolves.
C5_IdentitySkipped ==
    (GateReturned /\ ~Policy.verifyIdentity) =>
        /\ gateResult.calls \in {<< >>, <<"checkLiveness">>}
        /\ LivenessFails => gateResult.error.name = "AgentNotLiveError"
        /\ (~LivenessFails /\ BelowThreshold) =>
              gateResult.error.name = "TrustScoreBelowThresholdError"
        /\ gateResult.error =
              verifySendPreconditions(
                  gateCall.agent, [Policy EXCEPT !.verifyIdentity = TRUE],
                  [ok |-> TRUE, thrown |-> NoThrow], gateCall.liveOut,
                  now).error

\* Identity is skipped and an offline agent is still rejected.
C5_Witness ==
    /\ GateReturned
    /\ ~Policy.verifyIdentity
    /\ ~gateCall.resolveOut.ok
    /\ ~gateCall.agent.isLive
    /\ gateResult.calls = << >>
    /\ gateResult.error.name = "AgentNotLiveError"

\* C6: with livenessCheckBeforeSend=false checkLiveness is never called; the
\* stage raises AgentNotLiveError exactly when requireLive is set and the
\* cached isLive is false, and otherwise passes without a probe.
C6_CachedLiveness ==
    (GateReturned /\ ~Policy.livenessCheckBeforeSend) =>
        /\ gateResult.calls \in {<< >>, <<"resolveDID">>}
        /\ IdentityPasses =>
              IF Policy.requireLive /\ ~gateCall.agent.isLive
              THEN gateResult.error = AgentNotLiveError(NoThrow)
              ELSE gateResult.stage \in {"reputation", "done"}

\* requireLive is off and an agent whose cached status is offline passes.
C6_Witness ==
    /\ GateReturned
    /\ ~Policy.livenessCheckBeforeSend
    /\ ~Policy.requireLive
    /\ ~gateCall.agent.isLive
    /\ gateResult.error = NoError

\* C7: with livenessCheckBeforeSend=true the gate probes the agent once; a
\* false answer and a throw both surface as AgentNotLiveError, a thrown Error
\* being kept as the cause (any other thrown value as an Error carrying its
\* text), and only a true answer lets the gate go on to the reputation stage.
C7_ProbedLiveness ==
    (GateReturned /\ Policy.livenessCheckBeforeSend /\ IdentityPasses) =>
        /\ gateResult.calls \in {<<"checkLiveness">>,
                                 <<"resolveDID", "checkLiveness">>}
        /\ (gateCall.liveOut.ok /\ ~gateCall.liveOut.value) =>
              gateResult.error = AgentNotLiveError(NoThrow)
        /\ ~gateCall.liveOut.ok =>
              /\ gateResult.error.name = "AgentNotLiveError"
              /\ gateResult.error.code = "AGENT_NOT_LIVE"
              /\ gateResult.error.cause.type = "Error"
              /\ gateResult.error.cause.msg = gateCall.liveOut.thrown.msg
              /\ gateCall.liveOut.thrown.type = "Error" =>
                    gateResult.error.cause = gateCall.liveOut.thrown
        /\ gateResult.stage \in {"reputation", "done"} <=>
              (gateCall.liveOut.ok /\ gateCall.liveOut.value)

\* The probe threw an Error and the gate raised AgentNotLiveError caused by it.
C7_Witness ==
    /\ GateReturned
    /\ Policy.livenessCheckBeforeSend
    /\ IdentityPasses
    /\ gateCall.liveOut.thrown \in ThrownErrors
    /\ gateResult.error = AgentNotLiveError(gateCall.liveOut.thrown)

\* C8 as stated: any failure of resolveDID, an Error or any other thrown
\* value, is raised as DIDResolutionError whose cause is the original failure.
C8_CauseIsOriginalFailure ==
    (GateReturned /\ Policy.verifyIdentity /\ ~gateCall.resolveOut.ok) =>
        /\ gateResult.error.name = "DIDResolutionError"
        /\ gateResult.error.code = "DID_RESOLUTION_FAILED"
        /\ gateResult.error.cause = gateCall.resolveOut.thrown

\* C8 amended: any failure of resolveDID is raised as DIDResolutionError with
\* code DID_RESOLUTION_FAILED; its cause is the thrown value itself when that
\* is an Error and otherwise a new Error carrying the value's text; nothing
\* else escapes the identity stage.
C8_IdentityFailureWrapped ==
    GateReturned =>
        /\ (Policy.verifyIdentity /\ ~gateCall.resolveOut.ok) =>
              /\ gateResult.error.name = "DIDResolutionError"
              /\ gateResult.error.code = "DID_RESOLUTION_FAILED"
              /\ gateResult.error.cause.type = "Error"
              /\ gateResult.error.cause.msg = gateCall.resolveOut.thrown.msg
              /\ gateCall.resolveOut.thrown.type = "Error" =>
                    gateResult.error.cause = gateCall.resolveOut.thrown
        /\ gateResult.stage = "identity" =>
              /\ gateResult.error.name = "DIDResolutionError"
              /\ Policy.verifyIdentity /\ ~gateCall.resolveOut.ok

\* resolveDID threw a string and the error's cause is an Error made from it.
C8_Witness ==
    /\ GateReturned
    /\ Policy.verifyIdentity
    /\ gateCall.resolveOut.thrown \in ThrownValues
    /\ gateResult.error.name = "DIDResolutionError"
    /\ gateResult.error.cause = [type |-> "Error", msg |-> "boom"]

\* C9: the reputation stage raises TrustScoreBelowThresholdError carrying
\* (agent.trustScore, minTrustScore) exactly when minTrustScore > 0 and the
\* score is null or below it: null against 10 raises (null, 10), 85 passes 50
\* and raises (85, 90) against 90, a score equal to the threshold passes, and
\* a threshold of 0 rejects nobody.
C9_ReputationStage ==
    (GateReturned /\ ReachedReputation) =>
        LET score == gateCall.agent.trustScore
            min == Policy.minTrustScore
            raised == gateResult.error.name = "TrustScoreBelowThresholdError"
        IN  /\ raised <=> (min > 0 /\ (score = NullScore \/ score < min))
            /\ raised => gateResult.error =
                             TrustScoreBelowThresholdError(score, min)
            /\ ~raised => gateResult.error = NoError
            /\ (score = NullScore /\ min = 10) =>
                  gateResult.error =
                      TrustScoreBelowThresholdError(NullScore, 10)
            /\ (score = 85 /\ min = 50) => gateResult.error = NoError
            /\ (score = 85 /\ min = 90) =>
                  gateResult.error = TrustScoreBelowThresholdError(85, 90)
            /\ score = min => gateResult.error = NoError
            /\ min = 0 => gateResult.error = NoError

\* Score 85 against threshold 90 is rejected with (85, 90).
C9_Witness ==
    /\ GateReturned
    /\ ReachedReputation
    /\ gateCall.agent.trustScore = 85
    /\ Policy.minTrustScore = 90
    /\ gateResult.error = TrustScoreBelowThresholdError(85, 90)

----------------------------------------------------------------------------
(* Properties of the client (Spec)                                          *)

\* The stages that work on the agent record alone accept the record.
PassesCachedStages(agent) ==
    /\ ~(/\ ~pipelineConfig.livenessCheckBeforeSend
         /\ pipelineConfig.requireLive
         /\ ~agent.isLive)
    /\ ~(/\ pipelineConfig.minTrustScore > 0
         /\ \/ agent.trustScore = NullScore
            \/ agent.trustScore < pipelineConfig.minTrustScore)

\* C2: every connect(did) and every sendByCapability that reaches its agent
\* runs the trust pipeline on it, also when the connection comes from the
\* cache, so a call that returns a connection has an agent that passes the
\* enabled stages.
C2_EveryConnectRunsPipeline ==
    (last.op \in {"connect", "sendByCapability"} /\ last.handle # 0) =>
        /\ last.gateStage = "done"
        /\ PassesCachedStages(handles[last.handle].agent)

\* C3: sendByCapability and streamByCapability send a message only after
\* verifySendPreconditions succeeded for the agent in the same call, cached
\* connection or not; a failing stage raises its error and nothing is sent.
C3_NoSendWithoutGate ==
    last.op \in {"sendByCapability", "streamByCapability"} =>
        /\ last.sent =>
              /\ last.gateStage = "done"
              /\ last.gateError = "none"
              /\ last.handle # 0
              /\ PassesCachedStages(handles[last.handle].agent)
        /\ last.gateError # "none" =>
              /\ ~last.sent
              /\ last.error = last.gateError
              /\ last.handle = 0
        /\ last.gateStage = "idle" => ~last.sent

\* A send to an agent whose connection is cached is stopped by the gate.
C3_Witness ==
    /\ last.op = "sendByCapability"
    /\ last.cached
    /\ last.gateError = "TrustScoreBelowThresholdError"
    /\ last.error = "TrustScoreBelowThresholdError"
    /\ ~last.sent

----------------------------------------------------------------------------
(* Properties of the sender envelope (SenderSpec)                           *)

Verified == verified # NoVerified
\* The verified envelope is the one createSenderEnvelope produced, unchanged.
AsSigned ==
    verified.envelope =
        [senderDid |-> signedOver.identity.did,
         signature |-> Signature(signedOver.identity.privateKey,
                                 signedOver.messageId, signedOver.partsDigest),
         timestamp |-> verified.envelope.timestamp,
         messageId |-> signedOver.messageId]
\* The signer's DID document holds the public half of its private key.
MatchingIdentity ==
    DocumentKey(signedOver.identity.did) = signedOver.identity.privateKey
\* The verification happened inside the freshness window.
WithinWindow ==
    LET age == verified.at - verified.envelope.timestamp
    IN  age <= MaxAgeOf(verified.maxMessageAge) /\ age >= -ClockSkew

\* C10: round trip. An envelope made by createSenderEnvelope(messageId,
\* digest, identity), for an identity whose DID resolves to the key matching
\* its private key, verified against the same digest within the freshness
\* window, yields signatureValid, didResolved and did = identity.did.
C10_RoundTrip ==
    (/\ Verified
     /\ AsSigned
     /\ MatchingIdentity
     /\ verified.resolved =
            [ok |-> TRUE, key |-> DocumentKey(signedOver.identity.did)]
     /\ verified.partsDigest = signedOver.partsDigest
     /\ WithinWindow) =>
        /\ verified.result.signatureValid
        /\ verified.result.didResolved
        /\ verified.result.did = signedOver.identity.did

\* A round trip verified when the envelope is exactly maxMessageAge old.
C10_Witness ==
    /\ Verified
    /\ AsSigned
    /\ MatchingIdentity
    /\ verified.partsDigest = signedOver.partsDigest
    /\ verified.maxMessageAge = 2 * ClockSkew
    /\ verified.at - verified.envelope.timestamp = 2 * ClockSkew
    /\ verified.result.signatureValid
    /\ verified.result.didResolved
    /\ verified.result.did = signedOver.identity.did

\* The envelope verified carries the signature createSenderEnvelope made.
ValidlySigned ==
    verified.envelope.signature =
        Signature(signedOver.identity.privateKey, signedOver.messageId,
                  signedOver.partsDigest)
Age == verified.at - verified.envelope.timestamp

\* C11: a signature is bound to the (messageId, digest) pair it was made
\* over: a validly signed envelope verified against another digest, or with
\* its messageId replaced by another id, yields signatureValid = false.
C11_SignatureBound ==
    (/\ Verified
     /\ ValidlySigned
     /\ \/ verified.partsDigest # signedOver.partsDigest
        \/ verified.envelope.messageId # signedOver.messageId) =>
        ~verified.result.signatureValid

\* A fresh envelope of a matching identity whose messageId was replaced: the
\* DID resolves, the digest is the signed one and the signature is rejected.
C11_Witness ==
    /\ Verified
    /\ ValidlySigned
    /\ MatchingIdentity
    /\ WithinWindow
    /\ verified.envelope.senderDid = signedOver.identity.did
    /\ verified.resolved =
           [ok |-> TRUE, key |-> DocumentKey(signedOver.identity.did)]
    /\ verified.partsDigest = signedOver.partsDigest
    /\ verified.envelope.messageId # signedOver.messageId
    /\ verified.result.didResolved
    /\ ~verified.result.signatureValid

\* C12: with age = now - envelope.timestamp, an envelope with age > maxAge
\* (300 s when maxMessageAge is left out) or age < -30 s is rejected with
\* signatureValid = false, didResolved = false and no DID resolution; an age
\* of exactly maxAge or exactly -30 s passes the freshness check and the DID
\* is resolved.
C12_Freshness ==
    Verified =>
        LET maxAge == IF verified.maxMessageAge = Unset
                      THEN DefaultMaxMessageAge ELSE verified.maxMessageAge
        IN  /\ (Age > maxAge \/ Age < -ClockSkew) =>
                  /\ ~verified.result.signatureValid
                  /\ ~verified.result.didResolved
                  /\ verified.result.resolveCalls = 0
            /\ (Age <= maxAge /\ Age >= -ClockSkew) =>
                  verified.result.resolveCalls = 1
            /\ (Age = maxAge \/ Age = -ClockSkew) =>
                  verified.result.didResolved = verified.resolved.ok

\* An otherwise valid envelope just past the default window is rejected
\* without a resolution.
C12_Witness ==
    /\ Verified
    /\ ValidlySigned
    /\ MatchingIdentity
    /\ verified.envelope.senderDid = signedOver.identity.did
    /\ verified.envelope.messageId = signedOver.messageId
    /\ verified.partsDigest = signedOver.partsDigest
    /\ verified.maxMessageAge = Unset
    /\ Age = DefaultMaxMessageAge + ClockSkew
    /\ ~verified.result.signatureValid
    /\ ~verified.result.didResolved
    /\ verified.result.resolveCalls = 0

\* C13: impersonation. An envelope signed with identity A's key whose
\* senderDid was replaced by the DID of another identity B, which resolves to
\* B's key, verified inside the freshness window, yields didResolved = true
\* and signatureValid = false, and the result's did is the claimed DID (B).
C13_Impersonation ==
    (/\ Verified
     /\ ValidlySigned
     /\ WithinWindow
     /\ verified.envelope.senderDid # signedOver.identity.did
     /\ verified.resolved =
            [ok |-> TRUE, key |-> DocumentKey(verified.envelope.senderDid)]
     /\ DocumentKey(verified.envelope.senderDid) #
            signedOver.identity.privateKey) =>
        /\ verified.result.didResolved
        /\ ~verified.result.signatureValid
        /\ verified.result.did = verified.envelope.senderDid

\* did:key:a signs, the envelope claims did:key:b, and the digest and the
\* messageId are the signed ones.
C13_Witness ==
    /\ Verified
    /\ ValidlySigned
    /\ WithinWindow
    /\ signedOver.identity = [did |-> "did:key:a", privateKey |-> "key-a"]
    /\ verified.envelope.senderDid = "did:key:b"
    /\ verified.envelope.messageId = signedOver.messageId
    /\ verified.partsDigest = signedOver.partsDigest
    /\ verified.result =
           VerifiedSender("did:key:b", FALSE, TRUE,
                          verified.envelope.timestamp, 1)

\* C14: verifySenderEnvelope always returns a result: a failing DID
\* resolution gives signatureValid = false and didResolved = false, a throw
\* of the signature verification after a successful resolution gives
\* signatureValid = false with didResolved = true, and every result has
\* did = envelope.senderDid and signedAt = envelope.timestamp.
C14_NeverRaises ==
    Verified =>
        /\ verified.result.did = verified.envelope.senderDid
        /\ verified.result.signedAt = verified.envelope.timestamp
        /\ verified.result.signatureValid \in BOOLEAN
        /\ verified.result.didResolved \in BOOLEAN
        /\ (WithinWindow /\ ~verified.resolved.ok) =>
              /\ ~verified.result.signatureValid
              /\ ~verified.result.didResolved
        /\ (/\ WithinWindow
            /\ verified.resolved.ok
            /\ verificationThrows(verified.resolved.key)) =>
              /\ ~verified.result.signatureValid
              /\ verified.result.didResolved

\* The DID resolved to a document the verification threw on.
C14_Witness ==
    /\ Verified
    /\ WithinWindow
    /\ verified.resolved = [ok |-> TRUE, key |-> NULL]
    /\ verified.result =
           VerifiedSender(verified.envelope.senderDid, FALSE, TRUE,
                          verified.envelope.timestamp, 1)

----------------------------------------------------------------------------
(* Properties of user delegations (DelegationSpec)                          *)

UserVerified == verifiedUser # NoVerifiedUser
\* The delegation verified, its signature and the second it was verified in.
Claimed == verifiedUser.envelope.delegation
ClaimedSignature == verifiedUser.envelope.signature
NowSeconds == verifiedUser.at \div MillisPerSecond
\* The signature was made over the delegation as verified, by the wallet of
\* the address it claims (in whatever case the claim is written).
SignedByClaimedUser ==
    /\ ClaimedSignature.key # NULL
    /\ ClaimedSignature.message = TypedData(Claimed)
    /\ toLowerCase(AddressOf(ClaimedSignature.key)) =
          toLowerCase(Claimed.userAddress)
\* The envelope verified carries the signature signUserDelegation made.
SignatureAsSigned ==
    ClaimedSignature =
        signUserDelegation(delegationSigned.delegation,
                           delegationSigned.privateKey).signature

C16_ExpiredFlag ==
    UserVerified =>
        /\ verifiedUser.result.expired <=> (NowSeconds > Claimed.exp)
        /\ Claimed.exp < NowSeconds =>
              /\ verifiedUser.result.expired
              /\ ~verifiedUser.result.valid
        /\ Claimed.exp = NowSeconds => ~verifiedUser.result.expired

\* A delegation whose exp passed a minute ago, with a signature nothing can
\* be recovered from.
C16_Witness ==
    /\ UserVerified
    /\ ClaimedSignature = MalformedSignature
    /\ Claimed.exp = NowSeconds - 60
    /\ verifiedUser.result.expired
    /\ ~verifiedUser.result.valid

\* C17: any expected agent DID that is supplied and differs from the
\* delegation's delegateDid makes the result not valid; the delegate check is
\* skipped only when no expected DID is supplied at all.
C17_DelegateChecked ==
    (/\ UserVerified
     /\ verifiedUser.expectedAgentDid # UNDEFINED
     /\ verifiedUser.expectedAgentDid # Claimed.delegateDid) =>
        ~verifiedUser.result.valid

\* C18: once a delegation is signed, replacing the value of a signed field
\* (userAddress, delegateDid, scope, exp or nonce) by another makes the
\* result not valid.
C18_TamperedField ==
    (/\ UserVerified
     /\ SignatureAsSigned
     /\ TypedData(Claimed) # TypedData(delegationSigned.delegation)) =>
        ~verifiedUser.result.valid

\* A delegation that verifies as signed is handed over with its scope widened
\* to "*": unexpired, for the expected agent, and not valid.
C18_Witness ==
    /\ UserVerified
    /\ SignatureAsSigned
    /\ toLowerCase(AddressOf(delegationSigned.privateKey)) =
          toLowerCase(delegationSigned.delegation.userAddress)
    /\ delegationSigned.delegation.scope = "hotel-booking"
    /\ Claimed = [delegationSigned.delegation EXCEPT !.scope = "*"]
    /\ verifiedUser.expectedAgentDid = Claimed.delegateDid
    /\ ~verifiedUser.result.expired
    /\ ~verifiedUser.result.valid

\* C19: verifyUserDelegation always returns a result: when no address can be
\* recovered, valid is false, expired is the computed flag and address is the
\* claimed userAddress; when recovery succeeds, address is the recovered
\* address, matching the claim or not.
C19_NeverRaises ==
    UserVerified =>
        /\ verifiedUser.result.delegatedTo = Claimed.delegateDid
        /\ verifiedUser.result.scope = Claimed.scope
        /\ ClaimedSignature.key = NULL =>
              verifiedUser.result =
                  VerifiedUser(Claimed.userAddress, Claimed.delegateDid,
                               Claimed.scope, FALSE, NowSeconds > Claimed.exp)
        /\ ClaimedSignature.key # NULL =>
              verifiedUser.result.address =
                  IF ClaimedSignature.message = TypedData(Claimed)
                  THEN AddressOf(ClaimedSignature.key)
                  ELSE UnrelatedAddress

\* Recovery succeeds and yields the address of a wallet other than the one
\* the delegation claims.
C19_Witness ==
    /\ UserVerified
    /\ ClaimedSignature.key = "wallet-2"
    /\ ClaimedSignature.message = TypedData(Claimed)
    /\ Claimed.userAddress = "0xAbC1"
    /\ verifiedUser.result.address = "0xDeF2"
    /\ ~verifiedUser.result.valid

----------------------------------------------------------------------------
(* Properties of the extractors (ExtractSpec)                               *)

Extraction == extracted # NoExtracted
\* The entry under the extension key is an object holding a delegation
\* object with string userAddress, delegateDid, scope and nonce, an exp that
\* is an integer number or a numeric string, and a string signature.
WellFormedDelegation ==
    /\ metadata.type = "object"
    /\ metadata.entry.type = "object"
    /\ metadata.entry.signature.type = "string"
    /\ metadata.entry.delegation.type = "object"
    /\ LET delegation == metadata.entry.delegation.properties
       IN  /\ delegation.userAddress.type = "string"
           /\ delegation.delegateDid.type = "string"
           /\ delegation.scope.type = "string"
           /\ delegation.nonce.type = "string"
           /\ delegation.exp \in {JSValue("number", "1800"),
                                  JSValue("string", "1800"),
                                  JSValue("bigint", "1800")}

\* C20: extractUserDelegation never throws: it returns an envelope, with exp
\* normalised to an integer, for a well-formed entry whose exp is an integer
\* number or a numeric string, and null for every other metadata.
C20_ExtractTotal ==
    Extraction =>
        /\ extracted.type # "throws"
        /\ extracted.type = "envelope" <=> WellFormedDelegation
        /\ extracted.type = "envelope" => extracted.delegation.exp = 1800

\* The value under the sender-identity key is an object holding a string
\* senderDid, a string signature, a number timestamp and a string messageId.
WellFormedSenderEntry ==
    /\ metadata.type = "object"
    /\ metadata.entry.type = "object"
    /\ metadata.entry.senderDid.type = "string"
    /\ metadata.entry.signature.type = "string"
    /\ metadata.entry.timestamp.type = "number"
    /\ metadata.entry.messageId.type = "string"

\* C21: extractSenderEnvelope returns an envelope exactly when the metadata
\* map holds, under the sender-identity key, an object with a string
\* senderDid, a string signature, a number timestamp and a string messageId,
\* and then returns that object; for every other metadata it returns null;
\* what another key holds makes no difference.
C21_ExtractSenderEnvelope ==
    Extraction =>
        /\ extracted.type \in {"null", "envelope"}
        /\ extracted.type = "envelope" <=> WellFormedSenderEntry
        /\ extracted.type = "envelope" => extracted.envelope = metadata.entry
        /\ extracted =
              extractSenderEnvelope([metadata EXCEPT !.other = NoSenderEntry])

\* The key is absent while another key holds a complete envelope: null.
C21_Witness ==
    /\ Extraction
    /\ metadata.type = "object"
    /\ metadata.entry = NoSenderEntry
    /\ metadata.other = CompleteSenderEntry
    /\ extracted = ExtractedSenderNull

----------------------------------------------------------------------------
(* Properties of the request-scoped storage (RequestSpec)                   *)

\* C22: whatever the interleaving of requests with distinct context objects,
\* getVerifiedSender(c) and getVerifiedUser(c) return the result last stored
\* for that same context c, and undefined when nothing was stored for c.
C22_PerContext ==
    /\ lastGet.map = "sender" => lastGet.sender = lastStored.sender[lastGet.context]
    /\ lastGet.map = "user" => lastGet.user = lastStored.user[lastGet.context]
    /\ \A c \in RequestContexts :
          Held(c) =>
              /\ getVerifiedSender(verifiedSenderMap, c) = lastStored.sender[c]
              /\ getVerifiedUser(verifiedUserMap, c) = lastStored.user[c]

\* Two requests are being handled; a sender is stored for request-1 only and
\* getVerifiedSender of request-2's context returns undefined.
C22_Witness ==
    /\ contexts["request-1"] = "handling"
    /\ contexts["request-2"] = "handling"
    /\ lastStored.sender["request-1"] \in StoredSenders
    /\ lastStored.sender["request-2"] = UndefinedSender
    /\ lastGet.map = "sender"
    /\ lastGet.context = "request-2"
    /\ lastGet.sender = UndefinedSender

----------------------------------------------------------------------------
(* Properties of the two liveness modes together (GateSpec)                 *)

\* C29: with requireLive and livenessCheckBeforeSend both set, an agent
\* whose cached isLive is false is rejected with AgentNotLiveError whatever
\* the live probe answers.
C29_CachedOfflineFailsFast ==
    (/\ GateReturned
     /\ IdentityPasses
     /\ Policy.requireLive
     /\ Policy.livenessCheckBeforeSend
     /\ ~gateCall.agent.isLive) =>
        gateResult.error.name = "AgentNotLiveError"

----------------------------------------------------------------------------
(* Properties of the connection cache (ConnectSpec)                         *)

\* C25: connections are cached by DID. Whatever the order or interleaving of
\* the connect(did) calls on one client, with no disconnectAgent or
\* clearConnections in between, all calls for one DID return the same
\* TrustedAgent instance, and a call that returns the cached instance leaves
\* its contextId and lastTaskId as they were and installs trust information
\* built from the agent record it fetched.
C25_CachedByDid ==
    /\ \A r1, r2 \in returned :
          (r1.did = r2.did /\ r1.handle # 0 /\ r2.handle # 0) =>
              r1.handle = r2.handle
    /\ \A r \in returned :
          (r.reused /\ r.handle # 0) =>
              /\ r.contextAfter = r.contextBefore
              /\ r.taskAfter = r.taskBefore
              /\ r.trustInfo = buildTrustInfo(r.agent, r.at)

\* C26: the scope option of connectByUrl isolates contexts. Two connectByUrl
\* calls that differ in url or in scope share neither a TrustedAgent instance
\* nor a context-store key, and a URL connection's store key is never the
\* store key of a DID connection.
C26_ScopeIsolates ==
    /\ \A r1, r2 \in returned :
          (/\ r1.handle # 0
           /\ r2.handle # 0
           /\ r1.url # r2.url \/ r1.scope # r2.scope) =>
              /\ r1.handle # r2.handle
              /\ handles[r1.handle].storeKey # handles[r2.handle].storeKey
    /\ \A r \in returned, did \in DIDs :
          r.handle # 0 => handles[r.handle].storeKey # StoreKeyOfDid(did)

----------------------------------------------------------------------------
(* Properties of a connection in use (SessionSpec)                          *)

\* Every TrustInfo handed out still has the field values it had then, and a
\* connection's trustInfo field holds the values of the object it points at.
SnapshotsKept ==
    /\ \A i \in issued : snapshots[i.ref] = i.info
    /\ \A h \in 1..Len(handles) : snapshots[trustInfoOf[h]] = handles[h].trustInfo

\* A step that changes a connection's agent record or trust values points
\* the connection at an object created in that step, and no step writes to
\* an object that exists.
InstallsNew ==
    /\ \A r \in 1..Len(snapshots) : snapshots'[r] = snapshots[r]
    /\ \A h \in 1..Len(handles) :
          (\/ handles'[h].agent # handles[h].agent
           \/ handles'[h].trustInfo # handles[h].trustInfo) =>
              /\ trustInfoOf'[h] > Len(snapshots)
              /\ snapshots'[trustInfoOf'[h]] = handles'[h].trustInfo

\* C24: a TrustInfo snapshot is never mutated in place. Every re-verification
\* or refresh (cached connect, cached _connectAgent, refreshTrust) installs a
\* newly created snapshot on the connection, and a snapshot handed out in an
\* earlier response or stream event keeps all its field values afterwards.
C24_SnapshotsImmutable == []SnapshotsKept /\ [][InstallsNew]_vars

\* A snapshot was handed out, the connection has since been refreshed with
\* different trust values, and the snapshot handed out is as it was.
C24_Witness ==
    /\ Len(handles) >= 1
    /\ \E i \in issued :
          /\ i.ref # trustInfoOf[1]
          /\ snapshots[i.ref] = i.info
          /\ snapshots[trustInfoOf[1]] # i.info

\* C27: with livenessCheckBeforeSend set, every message sent through
\* sendByCapability, streamByCapability, TrustedAgent.send or
\* TrustedAgent.stream is preceded, after the previous send, by a
\* checkLiveness probe of the target agent.
C27_ProbeBeforeEachSend ==
    (pipelineConfig.livenessCheckBeforeSend /\ outbound.via # "none") =>
        outbound.probed

\* C28: every event yielded by one TrustedAgent.stream() call carries the
\* TrustInfo snapshot the connection held when streaming began, also when
\* refreshTrust() or a cached connect()/sendByCapability for the same DID
\* runs while the stream is being consumed.
C28_StreamCarriesSnapshot ==
    stream # 0 => \A carried \in streamed.events : carried = streamed.began

\* C30: the contextId and taskId placed on an outbound message are the
\* caller's, from SendOptions or else from the MessageInput; the tracked
\* value of the most recent exchange is used only when the caller supplies
\* none, and before the first exchange nothing is sent.
C30_CallerContextWins ==
    outbound.via # "none" =>
        /\ outbound.contextId =
               Coalesce(outbound.options.contextId,
                        Coalesce(outbound.input.contextId,
                                 outbound.tracked.contextId))
        /\ outbound.taskId =
               Coalesce(outbound.options.taskId,
                        Coalesce(outbound.input.taskId,
                                 outbound.tracked.taskId))

----------------------------------------------------------------------------
(* Properties of the pipeline's outcomes (GateSpec)                         *)

\* How often a call made the registry call of that name.
CallCount(made, name) == Cardinality({i \in 1..Len(made) : made[i] = name})

\* C37: one invocation of verifySendPreconditions calls resolveDID at most
\* once and checkLiveness at most once, and ends in exactly one of four
\* outcomes: a TrustInfo snapshot, DIDResolutionError, AgentNotLiveError or
\* TrustScoreBelowThresholdError, whatever the registry calls return or
\* throw.
C37_OneOfFourOutcomes ==
    GateReturned =>
        /\ CallCount(gateResult.calls, "resolveDID") <= 1
        /\ CallCount(gateResult.calls, "checkLiveness") <= 1
        /\ gateResult.error.name \in
               {"none", "DIDResolutionError", "AgentNotLiveError",
                "TrustScoreBelowThresholdError"}
        /\ gateResult.error = NoError <=> gateResult.trustInfo # NoTrustInfo
        /\ gateResult.error = NoError =>
               gateResult.trustInfo = buildTrustInfo(gateCall.agent, now)

\* resolveDID succeeded and checkLiveness threw a value that is not an Error:
\* the call made each registry call once and ended in AgentNotLiveError.
C37_Witness ==
    /\ GateReturned
    /\ Policy.verifyIdentity
    /\ Policy.livenessCheckBeforeSend
    /\ gateCall.resolveOut.ok
    /\ ~gateCall.liveOut.ok
    /\ gateCall.liveOut.thrown.type = "string"
    /\ gateResult.calls = <<"resolveDID", "checkLiveness">>
    /\ gateResult.error.name = "AgentNotLiveError"

----------------------------------------------------------------------------
(* Properties of a failed re-verification (Spec)                            *)

\* The step is a sendByCapability or streamByCapability call that found the
\* selected agent's connection in the cache and whose gate threw. (Only a
\* client call writes `last`; a call that repeats the one before it and
\* changes nothing is no step.)
FailedReverification ==
    /\ last' # last
    /\ last'.op \in {"sendByCapability", "streamByCapability"}
    /\ last'.cached
    /\ last'.gateError # "none"

\* C39: when _connectAgent re-verifies an agent whose DID is in the
\* connection cache and the gate fails, the error propagates and the cached
\* TrustedAgent is left as it was: its agent record, its trustInfo, its
\* contextId and lastTaskId and the cache entry are unchanged, and nothing
\* is sent.
C39_FailedReverifyLeavesCache ==
    [][FailedReverification =>
          /\ handles' = handles
          /\ connectionCache' = connectionCache
          /\ last'.error = last'.gateError
          /\ ~last'.sent]_vars

\* A cached connection with a conversation was re-verified by
\* sendByCapability and the gate threw.
C39_Witness ==
    /\ last.op = "sendByCapability"
    /\ last.cached
    /\ last.gateError = "AgentNotLiveError"
    /\ connectionCache[last.did] # 0
    /\ handles[connectionCache[last.did]].contextId # UNDEFINED
    /\ handles[connectionCache[last.did]].agent.isLive

----------------------------------------------------------------------------
(* Properties of replayed delegations (ReplaySpec)                          *)

----------------------------------------------------------------------------
(* Properties of the parts digest (DigestSpec)                              *)

\* C35: computePartsDigest is a deterministic function of the content of the
\* ordered list of parts with an output of 64 hex characters: two lists with
\* the same content have the same digest, also when the fields of their data
\* parts were written in a different key order, and two lists whose content
\* differs have different digests.
C35_DigestOfContent ==
    digested.computed =>
        /\ digested.firstDigest.hexDigits = 64
        /\ digested.secondDigest.hexDigits = 64
        /\ (Content(digested.first) = Content(digested.second))
              <=> (digested.firstDigest = digested.secondDigest)

----------------------------------------------------------------------------
(* Properties of the messages a signing client sends (SigningSpec)          *)

\* C34: when the client was constructed with signOutboundMessages: true and
\* a signingIdentity, every message that goes out through it, by
\* sendByCapability, streamByCapability or send and stream of a connection
\* it created, carries under SENDER_IDENTITY_EXTENSION a sender envelope of
\* that identity for the message's messageId.
C34_OutboundSigned ==
    (/\ built.via \in Ways
     /\ config.signOutboundMessages
     /\ config.signingIdentity # NoIdentity) =>
        /\ built.message.metadata.present
        /\ SENDER_IDENTITY_EXTENSION \in built.message.metadata.keys
        /\ built.message.metadata.sender.senderDid = config.signingIdentity.did
        /\ built.message.metadata.sender.messageId = built.message.messageId

----------------------------------------------------------------------------
(* Properties of the messages built (BuildSpec)                             *)

\* C38: the message buildMessageSendParams builds with a signing identity
\* carries a sender envelope with the message's own messageId, signed over
\* the digest of the parts placed in the message: a receiver that resolves
\* the sender's DID to the key of the identity, while the envelope is not
\* older than the maximum age, gets signatureValid = true from
\* verifySenderEnvelope(extractSenderEnvelope(metadata),
\* computePartsDigest(parts)). The metadata holds the sender-identity key
\* exactly when a signing identity was given, the user-delegation key
\* exactly when a delegation was given, no other key, and is absent when
\* neither was given.
C38_BuiltMessageVerifies ==
    built # NoBuilt =>
        LET message == built.message
            signs == built.options.signingIdentity # NoIdentity
            delegates == built.options.userDelegation # NoDelegationEnvelope
        IN  /\ message.parts = buildMessageParts(built.input)
            /\ message.metadata.keys \subseteq
                  {SENDER_IDENTITY_EXTENSION, USER_DELEGATION_EXTENSION}
            /\ SENDER_IDENTITY_EXTENSION \in message.metadata.keys <=> signs
            /\ USER_DELEGATION_EXTENSION \in message.metadata.keys <=> delegates
            /\ message.metadata.present <=> (signs \/ delegates)
            /\ signs => message.metadata.sender.messageId = message.messageId
            /\ delegates =>
                  message.metadata.delegation = built.options.userDelegation
            /\ (/\ built.receipt.received
                /\ signs
                /\ built.receipt.resolved.ok
                /\ built.receipt.resolved.key =
                      built.options.signingIdentity.privateKey
                /\ built.receipt.at - message.metadata.sender.timestamp
                      <= MaxAgeOf(Unset)) =>
                   /\ built.receipt.extracted
                   /\ built.receipt.result.signatureValid
                   /\ built.receipt.result.did =
                         built.options.signingIdentity.did

\* A message built from text, data and parts with a signing identity and a
\* delegation was received some time later, and its signature was valid.
C38_Witness ==
    /\ built.receipt.received
    /\ built.input.type = "object"
    /\ Len(built.message.parts) = 3
    /\ built.options.signingIdentity.did = "did:web:c"
    /\ built.options.userDelegation = SampleDelegation
    /\ built.receipt.at > built.message.metadata.sender.timestamp
    /\ built.receipt.result.signatureValid

----------------------------------------------------------------------------
(* Properties of the persisted conversation context (StoreSpec)             *)

\* The contextId and lastTaskId a TrustedAgent holds, and the context the
\* store holds under a key (an absent entry holds none).
TrackedIds(ta) == [contextId |-> ta.contextId, taskId |-> ta.lastTaskId]
PersistedIds(st, key) == IF st[key] = NoContext THEN NoIds ELSE st[key]

\* The last call made on the client or on one of its connections was `op`,
\* and the store has completed every operation it was handed.
Settled(op) == last.op = op /\ pending = {}

\* The last call was a connect that created a connection for a DID that had
\* one before.
Reconnected ==
    /\ last.op = "connect"
    /\ last.error = "none"
    /\ ~last.cached
    /\ last.handle > 1

\* C31: resetContext clears the in-memory and the persisted state: right
\* after it contextId and lastTaskId are undefined, and once the store has
\* completed every pending operation, in whatever order, it holds no entry
\* under the connection's key.
C31_ResetClearsStore ==
    last.op = "resetContext" =>
        /\ TrackedIds(handles[last.handle]) = NoIds
        /\ (config.contextStore /\ pending = {}) =>
               store[handles[last.handle].storeKey] = NoContext

\* A connect call returns a connection it created for a DID that had one
\* before.
Reconnects ==
    /\ last' # last
    /\ last'.op = "connect"
    /\ last'.error = "none"
    /\ ~last'.cached
    /\ last'.handle > 1

C33_ClearedConnectionsStartFresh ==
    Reconnected =>
        /\ last.handle = Len(handles)
        /\ connectionCache[last.did] = last.handle
        /\ TrackedIds(handles[last.handle]) = NoIds

\* C40: once the store has completed every write that send and stream
\* issued, in whatever order, the context it holds under the connection's
\* key is the contextId and lastTaskId the connection holds; and a send or
\* stream fails only with what the remote agent answered, never with the
\* store's failure.
C40_PersistedEqualsTracked ==
    (last.op \in {"send", "stream"} /\ config.contextStore) =>
        /\ last.error \in {"none", ExternalError.name, A2AProtocolError.name}
        /\ pending = {} =>
              PersistedIds(store, handles[last.handle].storeKey) =
                 TrackedIds(handles[last.handle])

====
